---------------------------- MODULE Spec2Model ----------------------------
(***************************************************************************)
(* A model of clearcast-core: the AudioEngine (noise gate, effect chain,   *)
(* soft limiter, peak normaliser), the Delay effect, compress_rms,         *)
(* reduce_noise_wiener, parametric_eq, the MultibandCompressor and the     *)
(* ClearCastProcessor pipeline.                                            *)
(*                                                                         *)
(* f32 values are modelled as exact rationals <<n, d>> with d > 0 in       *)
(* lowest terms, extended by the three IEEE specials, which are written    *)
(* with a zero denominator: <<0,0>> is NaN, <<1,0>> is +inf and <<-1,0>>   *)
(* is -inf.  Rounding of finite results (at most one ulp, 2^-24 relative)  *)
(* and the sign of zero are not modelled.                                  *)
(***************************************************************************)
EXTENDS Integers, Sequences, FiniteSets, TLC

VARIABLES
    engine,      \* the AudioEngine instance, or NoEngine before construction
    ctor,        \* the last constructor call: its arguments and its result
    fx,          \* the state of every effect instance (Arc<Mutex<Delay>>)
    pc,          \* per caller: where its AudioEngine::process call stands
    buf,         \* per caller: the call's local audio buffer
    idx,         \* per caller: index of the next effect of the chain
    inp,         \* per caller: the input the call was given
    res,         \* per caller: the result the call returned
    log,         \* per caller: the stages the call has run, in order
    snap,        \* effect states when the current round of calls began
    holder,      \* per effect: the caller holding its mutex, or 0
    unit,        \* the last direct call of one engine stage and its result
    mb,          \* the MultibandCompressor instance, or NoMB
    mbCall,      \* the last MultibandCompressor call and its result
    mbTrace,     \* inputs and outputs of the process calls on mb, in order
    proc,        \* the ClearCastProcessor instance
    procCall,    \* the last ClearCastProcessor::process_audio call
    dl,          \* a Delay its owner drives directly, or NoDelay
    dlTrace,     \* the process_buffer and reset calls made on dl, in order
    norm         \* the last buffer handed to a normaliser, and each pass

vars == <<engine, ctor, fx, pc, buf, idx, inp, res, log, snap, holder, unit,
          mb, mbCall, mbTrace, proc, procCall, dl, dlTrace, norm>>

engineVars == <<engine, ctor, fx, pc, buf, idx, inp, res, log, snap, holder,
                unit>>
mbVars == <<mb, mbCall, mbTrace>>
procVars == <<proc, procCall>>
directVars == <<dl, dlTrace, norm>>

-----------------------------------------------------------------------------
(* f32 arithmetic *)

NaN == <<0, 0>>
PosInf == <<1, 0>>
NegInf == <<-1, 0>>
Zero == <<0, 1>>
One == <<1, 1>>

Abs(n) == IF n < 0 THEN -n ELSE n

RECURSIVE GCD(_, _)
GCD(a, b) == IF b = 0 THEN a ELSE GCD(b, a % b)

\* The rational n/d (d # 0) in lowest terms with a positive denominator.
QBy(n, d, g) == <<((IF d < 0 THEN -1 ELSE 1) * n) \div g, Abs(d) \div g>>
Q(n, d) == QBy(n, d, GCD(Abs(n), Abs(d)))

IsNaN(x) == x = NaN
IsInf(x) == x = PosInf \/ x = NegInf
IsFinite(x) == x[2] # 0
Sign(x) == IF x[1] > 0 THEN 1 ELSE IF x[1] < 0 THEN -1 ELSE 0

\* Three-way comparison of n1/d1 and n2/d2 (d1, d2 > 0) by continued
\* fractions, so that no product is formed.
RECURSIVE Cmp(_, _, _, _)
Cmp(n1, d1, n2, d2) ==
    LET q1 == n1 \div d1
        q2 == n2 \div d2
        r1 == n1 % d1
        r2 == n2 % d2
    IN  IF q1 < q2 THEN -1
        ELSE IF q1 > q2 THEN 1
        ELSE IF r1 = 0 THEN (IF r2 = 0 THEN 0 ELSE -1)
        ELSE IF r2 = 0 THEN 1
        ELSE Cmp(d2, r2, d1, r1)

\* IEEE comparisons: every comparison with NaN is false.
FLt(x, y) ==
    IF IsNaN(x) \/ IsNaN(y) THEN FALSE
    ELSE IF IsInf(x) \/ IsInf(y)
         THEN (x = NegInf /\ y # NegInf) \/ (y = PosInf /\ x # PosInf)
         ELSE Cmp(x[1], x[2], y[1], y[2]) = -1
FLe(x, y) ==
    IF IsNaN(x) \/ IsNaN(y) THEN FALSE ELSE x = y \/ FLt(x, y)
FGt(x, y) == FLt(y, x)
FGe(x, y) == FLe(y, x)

FNeg(x) == <<-x[1], x[2]>>
FAbs(x) == <<Abs(x[1]), x[2]>>

FAdd(x, y) ==
    IF IsNaN(x) \/ IsNaN(y) THEN NaN
    ELSE IF IsInf(x) THEN (IF IsInf(y) /\ y # x THEN NaN ELSE x)
    ELSE IF IsInf(y) THEN y
    ELSE LET g == GCD(x[2], y[2])
         IN  Q(x[1] * (y[2] \div g) + y[1] * (x[2] \div g),
               (x[2] \div g) * y[2])
FSub(x, y) == FAdd(x, FNeg(y))

FMul(x, y) ==
    IF IsNaN(x) \/ IsNaN(y) THEN NaN
    ELSE IF IsInf(x) \/ IsInf(y)
         THEN (IF Sign(x) = 0 \/ Sign(y) = 0 THEN NaN
               ELSE <<Sign(x) * Sign(y), 0>>)
         ELSE LET g1 == GCD(Abs(x[1]), y[2])
                  g2 == GCD(Abs(y[1]), x[2])
              IN  Q((x[1] \div g1) * (y[1] \div g2),
                    (x[2] \div g2) * (y[2] \div g1))

FDiv(x, y) ==
    IF IsNaN(x) \/ IsNaN(y) THEN NaN
    ELSE IF IsInf(x)
         THEN (IF IsInf(y) THEN NaN
               ELSE <<Sign(x) * (IF Sign(y) < 0 THEN -1 ELSE 1), 0>>)
    ELSE IF IsInf(y) THEN Zero
    ELSE IF Sign(y) = 0
         THEN (IF Sign(x) = 0 THEN NaN ELSE <<Sign(x), 0>>)
    ELSE LET g1 == GCD(Abs(x[1]), Abs(y[1]))
             g2 == GCD(x[2], y[2])
         IN  Q((x[1] \div g1) * (y[2] \div g2),
               (x[2] \div g2) * (y[1] \div g1))

\* f32::max and f32::min: a NaN operand is ignored.
FMax(x, y) == IF IsNaN(x) THEN y ELSE IF IsNaN(y) THEN x
              ELSE IF FLt(x, y) THEN y ELSE x
FMin(x, y) == IF IsNaN(x) THEN y ELSE IF IsNaN(y) THEN x
              ELSE IF FLt(y, x) THEN y ELSE x

\* f32::signum: 1.0 for +0.0 and every positive value, NaN for NaN.
FSignum(x) == IF IsNaN(x) THEN NaN ELSE IF Sign(x) < 0 THEN <<-1, 1>> ELSE One

\* f32::clamp(lo, hi): NaN stays NaN.
FClamp(x, lo, hi) == IF FLt(x, lo) THEN lo ELSE IF FGt(x, hi) THEN hi ELSE x

\* (lo..=hi).contains(&x)
RangeContains(lo, hi, x) == FLe(lo, x) /\ FLe(x, hi)

RECURSIVE IntPow10(_)
IntPow10(k) == IF k = 0 THEN 1 ELSE 10 * IntPow10(k - 1)

\* f32::EPSILON = 2^-23
F32_EPSILON == <<1, 8388608>>

\* The peak of a buffer: fold(0.0, |a, b| a.max(b.abs()))
RECURSIVE PeakFrom(_, _, _)
PeakFrom(s, i, acc) ==
    IF i > Len(s) THEN acc ELSE PeakFrom(s, i + 1, FMax(acc, FAbs(s[i])))
Peak(s) == PeakFrom(s, 1, Zero)


-----------------------------------------------------------------------------
(* f32 arithmetic around the transcendental functions *)
(* compress_rms, the band filters, the equalizer and the ClearCastProcessor *)
(* take logarithms, powers, exponentials and square roots.  There a value  *)
(* is kept to four significant decimal digits (truncated), and no finer    *)
(* than 1e-8; a value with at most four digits is kept exactly.            *)

TruncDiv(m, k) == IF m < 0 THEN -((-m) \div k) ELSE m \div k

\* floor(n * 10^e / d) for n >= 0, d > 0, e >= 0, one digit at a time.
RECURSIVE FloorScaled(_, _, _)
FloorScaled(n, d, e) ==
    IF e = 0 THEN n \div d
    ELSE (n \div d) * IntPow10(e) + FloorScaled((n % d) * 10, d, e - 1)

RECURSIVE DecadeUp(_, _, _)
DecadeUp(n, d, k) ==
    IF k < 9 /\ Cmp(n, d, IntPow10(k + 1), 1) >= 0
    THEN DecadeUp(n, d, k + 1) ELSE k

RECURSIVE DecadeDown(_, _, _)
DecadeDown(n, d, k) ==
    IF Cmp(n, d, 1, IntPow10(-k)) >= 0 THEN k
    ELSE IF k = -9 THEN -10 ELSE DecadeDown(n, d, k - 1)

\* The decade of a positive rational: the k with 10^k <= n/d < 10^(k+1).
DecadeOf(n, d) == IF n >= d THEN DecadeUp(n, d, 0) ELSE DecadeDown(n, d, -1)

\* The decimal form <<m, e>> of a finite non-zero x: x truncated to
\* m * 10^e with |m| < 10^4 and e >= -8.
DecExponent(k) == IF k - 3 < -8 THEN -8 ELSE k - 3
DecMantissa(n, d, e) ==
    IF e <= 0 THEN FloorScaled(n, d, -e) ELSE (n \div d) \div IntPow10(e)
DecAt(x, e) == <<Sign(x) * DecMantissa(Abs(x[1]), x[2], e), e>>
Dec(x) == DecAt(x, DecExponent(DecadeOf(Abs(x[1]), x[2])))

\* The value m * 10^e, no finer than 1e-8.
FromDec(m, e) ==
    IF e >= 0 THEN <<m * IntPow10(e), 1>>
    ELSE IF e >= -8 THEN Q(m, IntPow10(-e))
    ELSE IF e >= -17 THEN Q(TruncDiv(m, IntPow10(-e - 8)), IntPow10(8))
    ELSE Zero

FromDecimal(a) == FromDec(a[1], a[2])
Rnd(x) == IF ~IsFinite(x) \/ x[1] = 0 THEN x ELSE FromDecimal(Dec(x))

Plain(x) == IsFinite(x) /\ x[1] # 0

DMulDec(a, b) == Rnd(FromDec(a[1] * b[1], a[2] + b[2]))
DMul(x, y) ==
    IF ~Plain(x) \/ ~Plain(y) THEN FMul(x, y) ELSE DMulDec(Dec(x), Dec(y))

\* hi has the larger exponent: lo is cut to four digits below it.
DAddAt(hi, lo, e) ==
    Rnd(FromDec(hi[1] * IntPow10(hi[2] - e)
                + TruncDiv(lo[1], IntPow10(e - lo[2])), e))
DAddAligned(hi, lo) ==
    DAddAt(hi, lo, IF lo[2] < hi[2] - 4 THEN hi[2] - 4 ELSE lo[2])
DAddDec(a, b) ==
    IF a[2] >= b[2] THEN DAddAligned(a, b) ELSE DAddAligned(b, a)
DAdd(x, y) ==
    IF ~Plain(x) \/ ~Plain(y) THEN FAdd(x, y) ELSE DAddDec(Dec(x), Dec(y))

DSub(x, y) == DAdd(x, FNeg(y))

DDivDec(a, b, s) ==
    Rnd(FromDec(s * ((Abs(a[1]) * 10000) \div Abs(b[1])), a[2] - b[2] - 4))
DDiv(x, y) ==
    IF ~Plain(x) \/ ~Plain(y) THEN FDiv(x, y)
    ELSE DDivDec(Dec(x), Dec(y), Sign(x) * Sign(y))

\* 1000 * 10^(j/10) for j = 0..10: between two entries the logarithm and
\* the power are interpolated linearly.
TenthDecades ==
    <<1000, 1259, 1585, 1995, 2512, 3162, 3981, 5012, 6310, 7943, 10000>>

\* The mantissa of 10^((j + t) / 10) for a tenth j and 0 <= t < 1.
Interpolate(lo, up, t) == Dec(DAdd(<<lo, 1>>, DMul(t, <<up - lo, 1>>)))
Powf10Scaled(a, k) == FromDec(a[1], a[2] - 3 + k)
Powf10Tenth(k, j, t) ==
    Powf10Scaled(Interpolate(TenthDecades[j + 1], TenthDecades[j + 2], t), k)
\* k is the whole part of the exponent, r / d its fraction.
Powf10Parts(k, r, d) ==
    Powf10Tenth(k, (10 * r) \div d, Q((10 * r) % d, d))
Powf10Floor(x, k) == Powf10Parts(k, x[1] - k * x[2], x[2])

\* 10.0f32.powf(x): the result overflows to +inf above f32::MAX (3.4e38)
\* and underflows to 0 below the smallest subnormal.
Powf10(x) ==
    IF IsNaN(x) THEN NaN
    ELSE IF x = PosInf THEN PosInf
    ELSE IF x = NegInf THEN Zero
    ELSE IF FGe(x, <<39, 1>>) THEN PosInf
    ELSE IF FLe(x, <<-46, 1>>) THEN Zero
    ELSE Powf10Floor(x, x[1] \div x[2])

TenthOf(m) ==
    CHOOSE i \in 0..9 : TenthDecades[i + 1] <= m /\ m < TenthDecades[i + 2]
Log10Between(k, m, j, lo, up) ==
    Rnd(Q((10 * k + j) * (up - lo) + (m - lo), 10 * (up - lo)))
Log10Tenth(k, m, j) ==
    Log10Between(k, m, j, TenthDecades[j + 1], TenthDecades[j + 2])
Log10Mantissa(k, m) == Log10Tenth(k, m, TenthOf(m))
\* a is the decimal form of x, k its decade.
Log10Dec(a, k) == Log10Mantissa(k, a[1] * IntPow10(a[2] - (k - 3)))

\* f32::log10
Log10(x) ==
    IF IsNaN(x) \/ Sign(x) < 0 THEN NaN
    ELSE IF x = PosInf THEN PosInf
    ELSE IF Rnd(x) = Zero THEN NegInf
    ELSE Log10Dec(Dec(x), DecadeOf(x[1], x[2]))

\* log10(e)
Log10E == <<4343, 10000>>

\* f32::exp
Exp(x) == Powf10(DMul(x, Log10E))

TanhOfExp(e) == DDiv(DSub(e, One), DAdd(e, One))

\* f32::tanh
Tanh(x) ==
    IF IsNaN(x) THEN NaN
    ELSE IF FGe(x, <<5, 1>>) THEN One
    ELSE IF FLe(x, <<-5, 1>>) THEN <<-1, 1>>
    ELSE TanhOfExp(Exp(DMul(<<2, 1>>, x)))

\* The largest s in lo..hi with s * s <= n.
RECURSIVE ISqrt(_, _, _)
ISqrt(n, lo, hi) ==
    IF lo = hi THEN lo
    ELSE LET mid == (lo + hi + 1) \div 2
         IN  IF mid * mid <= n THEN ISqrt(n, mid, hi) ELSE ISqrt(n, lo, mid - 1)

SqrtEven(m, e) == Rnd(FromDec(ISqrt(m * 10000, 0, 40000), (e - 4) \div 2))
SqrtDec(a) ==
    IF a[2] % 2 # 0 THEN SqrtEven(a[1] * 10, a[2] - 1) ELSE SqrtEven(a[1], a[2])

\* f32::sqrt
Sqrt(x) ==
    IF IsNaN(x) \/ Sign(x) < 0 THEN NaN
    ELSE IF ~IsFinite(x) \/ x = Zero THEN x
    ELSE SqrtDec(Dec(x))

-----------------------------------------------------------------------------
(* Buffers and results *)

\* Vec<f32> of the same length, element by element.
MapSeq(s, F(_)) == [i \in 1..Len(s) |-> F(s[i])]

\* e, once v has been computed: a loop carries the values of its variables
\* from one iteration to the next, not the expressions they came from.
Strict(v, e) == IF v = v THEN e ELSE e

Ok(v) == [ok |-> TRUE, val |-> v]
Err(e) == [ok |-> FALSE, err |-> e]

-----------------------------------------------------------------------------
(* engine/mod.rs: LimiterConfig and AudioEngine *)

NoEngine == [tag |-> "none"]

LimiterConfig(threshold, knee_width, make_up_gain, ratio) ==
    [threshold |-> threshold, knee_width |-> knee_width,
     make_up_gain |-> make_up_gain, ratio |-> ratio]

LimiterDefault == LimiterConfig(<<9, 10>>, <<1, 10>>, Zero, <<8, 1>>)

AudioEngine(nrt, tp, limiter, effects) ==
    [tag |-> "engine", noise_reduction_threshold |-> nrt, target_peak |-> tp,
     limiter |-> limiter, effects |-> effects]

EngineNew == AudioEngine(<<1, 20>>, <<19, 20>>, LimiterDefault, <<>>)

\* A faulty validation: the ratio is not looked at.
InvalidSettingsNoRatio(nrt, tp, limiter) ==
    \/ ~RangeContains(Zero, One, nrt)
    \/ ~RangeContains(Zero, One, tp)
    \/ ~RangeContains(Zero, One, limiter.threshold)
    \/ ~RangeContains(Zero, One, limiter.knee_width)

\* The validation of with_limiter: the condition under which it returns Err.
InvalidSettings(nrt, tp, limiter) ==
    \/ ~RangeContains(Zero, One, nrt)
    \/ ~RangeContains(Zero, One, tp)
    \/ ~RangeContains(Zero, One, limiter.threshold)
    \/ ~RangeContains(Zero, One, limiter.knee_width)
    \/ FLt(limiter.ratio, One)

EngineWithLimiter(nrt, tp, limiter) ==
    IF InvalidSettings(nrt, tp, limiter)
    THEN Err("ProcessingError")
    ELSE Ok(AudioEngine(FClamp(nrt, Zero, One), FClamp(tp, Zero, One),
                        limiter, <<>>))

EngineWithSettings(nrt, tp) == EngineWithLimiter(nrt, tp, LimiterDefault)

\* The noise gate's epsilon, 1e-6.
GateEpsilon == <<1, 1000000>>

\* A faulty gate: every sample below the threshold is zeroed.
GateSampleNoEpsilon(x, threshold) ==
    IF FLt(FAbs(x), threshold) /\ FGt(FAbs(x), Zero) THEN Zero ELSE x

\* A faulty gate: a sample at the threshold is zeroed as well.
GateSampleAtThreshold(x, threshold) ==
    IF FLe(FAbs(x), threshold) /\ FGt(FAbs(x), Zero) THEN Zero ELSE x

\* One sample through the gate.
GateSample(x, threshold) ==
    IF FLt(FAbs(x), FSub(threshold, GateEpsilon)) /\ FGt(FAbs(x), Zero)
    THEN Zero ELSE x

\* A faulty noise gate: the empty buffer is let through.
ApplyNoiseReductionLenient(e, audio) ==
    Ok([i \in 1..Len(audio) |->
           GateSample(audio[i],
                      FMul(Peak(audio), e.noise_reduction_threshold))])

ApplyNoiseReduction(e, audio) ==
    IF audio = <<>> THEN Err("EmptyBuffer")
    ELSE LET max_amplitude == Peak(audio)
             threshold == FMul(max_amplitude, e.noise_reduction_threshold)
         IN  Ok([i \in 1..Len(audio) |-> GateSample(audio[i], threshold)])

\* The final clamp of apply_soft_limiter, written as two comparisons.
ClampToPeak(x, target_peak) ==
    IF FGt(x, target_peak) THEN target_peak
    ELSE IF FLt(x, FNeg(target_peak)) THEN FNeg(target_peak)
    ELSE x

\* The shaping of one sample, before the clamp.
\* The knee branch: quadratic interpolation of the gain.
KneeGain(ratio, compression) ==
    FAdd(One, FMul(FMul(FSub(ratio, One), compression), compression))
KneeShape(sample, abs_sample, ratio, lower_threshold, upper_threshold) ==
    FMul(FSignum(sample),
         FAdd(lower_threshold,
              FDiv(FSub(abs_sample, lower_threshold),
                   KneeGain(ratio,
                            FDiv(FSub(abs_sample, lower_threshold),
                                 FSub(upper_threshold, lower_threshold))))))

\* The branch above the knee: the excess over the threshold divided by ratio.
AboveKneeShape(sample, abs_sample, threshold, ratio) ==
    FMul(FSignum(sample),
         FAdd(threshold, FDiv(FSub(abs_sample, threshold), ratio)))

ShapeBetween(limiter, sample, abs_sample, make_up_gain, lower_threshold, upper_threshold) ==
    IF FLe(abs_sample, lower_threshold)
    THEN FMul(sample, make_up_gain)
    ELSE IF FLt(abs_sample, upper_threshold)
    THEN FMul(KneeShape(sample, abs_sample, limiter.ratio, lower_threshold,
                        upper_threshold),
              make_up_gain)
    ELSE FMul(AboveKneeShape(sample, abs_sample, limiter.threshold,
                             limiter.ratio),
              make_up_gain)

\* apply_soft_limiter before its final clamp, for one sample.
LimiterShape(e, sample) ==
    ShapeBetween(e.limiter, sample, FAbs(sample),
                 Powf10(FDiv(e.limiter.make_up_gain, <<20, 1>>)),
                 FMul(e.limiter.threshold, FSub(One, e.limiter.knee_width)),
                 FMul(e.limiter.threshold, FAdd(One, e.limiter.knee_width)))

LimitSample(e, sample) == ClampToPeak(LimiterShape(e, sample), e.target_peak)

ApplySoftLimiter(e, samples) ==
    [i \in 1..Len(samples) |-> LimitSample(e, samples[i])]

\* A faulty normalisation: the gain is computed for a silent buffer too.
NormalizeAudioUnguarded(e, audio) ==
    IF audio = <<>> THEN Err("EmptyBuffer")
    ELSE Ok([i \in 1..Len(audio) |->
                FMul(audio[i], FDiv(e.target_peak, Peak(audio)))])

NormalizeAudio(e, audio) ==
    IF audio = <<>> THEN Err("EmptyBuffer")
    ELSE LET current_peak == Peak(audio)
         IN  IF FLt(current_peak, F32_EPSILON) THEN Ok(audio)
             ELSE LET gain == FDiv(e.target_peak, current_peak)
                  IN  Ok([i \in 1..Len(audio) |-> FMul(audio[i], gain)])

-----------------------------------------------------------------------------
(* effects/delay.rs: Delay *)

\* f32::round() as usize of a non-negative finite value (half away from zero).
NoDelay == [tag |-> "none"]

RoundToUsize(x) == (2 * x[1] + x[2]) \div (2 * x[2])

RECURSIVE Zeros(_)
Zeros(n) == IF n = 0 THEN <<>> ELSE <<Zero>> \o Zeros(n - 1)

DelayWith(delay_samples, feedback, wet, dry) ==
    [buffer |-> Zeros(delay_samples),
     delay_samples |-> delay_samples,
     feedback |-> FClamp(feedback, Zero, <<99, 100>>),
     wet |-> FClamp(wet, Zero, One),
     dry |-> FClamp(dry, Zero, One)]

DelayNew(delay_ms, feedback, wet, dry, sample_rate) ==
    DelayWith(RoundToUsize(FDiv(FMul(delay_ms, <<sample_rate, 1>>),
                                <<1000, 1>>)),
              feedback, wet, dry)

\* The sample popped from the front of the line, and what is pushed back.
DelayStep(d, sample, delayed, popped) ==
    [state |-> [d EXCEPT !.buffer =
                   Append(popped,
                          FAdd(sample,
                               IF FGt(d.feedback, Zero)
                               THEN FMul(delayed, d.feedback) ELSE Zero))],
     out |-> IF Len(popped) >= d.delay_samples
             THEN FAdd(FMul(sample, d.dry), FMul(delayed, d.wet))
             ELSE FMul(sample, d.dry)]

DelayPop(d, sample, filled) ==
    DelayStep(d, sample,
              IF filled # <<>> THEN Head(filled) ELSE Zero,
              IF filled # <<>> THEN Tail(filled) ELSE filled)

\* Delay::process_sample: the new state and the output sample.
DelayProcessSample(d, sample) ==
    DelayPop(d, sample,
             IF d.buffer = <<>> THEN Zeros(d.delay_samples) ELSE d.buffer)

\* Delay::process_buffer: every sample in order through process_sample.
RECURSIVE DelayProcessFrom(_, _, _, _)
DelayProcessNext(r, buffer, i, done) ==
    DelayProcessFrom(r.state, buffer, i + 1, Append(done, r.out))
DelayProcessFrom(d, buffer, i, done) ==
    IF i > Len(buffer) THEN [state |-> d, out |-> done]
    ELSE DelayProcessNext(DelayProcessSample(d, buffer[i]), buffer, i, done)
DelayProcessBuffer(d, buffer) == DelayProcessFrom(d, buffer, 1, <<>>)

\* A faulty reset: the delay line is left as it is.
DelayResetKeeps(d) == d

\* Delay::reset
DelayReset(d) == [d EXCEPT !.buffer = <<>>]

-----------------------------------------------------------------------------
(* effects/soft_limiter.rs: SoftLimiter *)

\* SoftLimiter::new
SoftLimiterNew(threshold, knee) ==
    [threshold |-> FClamp(threshold, <<1, 100>>, One),
     knee |-> FClamp(knee, Zero, One),
     is_active |-> TRUE]

\* SoftLimiter::set_active
SoftLimiterSetActive(l, active) == [l EXCEPT !.is_active = active]

\* The tail of apply_limiter: the limited sample mixed with the original.
SoftLimiterMix(sample, limited, mix) ==
    DAdd(DMul(limited, mix), DMul(sample, DSub(One, mix)))

\* apply_limiter above the threshold: the tanh curve, capped at 1.0.
SoftLimiterOver(l, sample, abs_sample, over) ==
    SoftLimiterMix(sample,
                   DMul(FSignum(sample),
                        FMin(DAdd(l.threshold,
                                  DMul(l.knee, Tanh(DDiv(over, l.knee)))),
                             One)),
                   FMin(DDiv(DSub(abs_sample, l.threshold),
                             DSub(One, l.threshold)),
                        One))

\* SoftLimiter::apply_limiter
SoftLimiterApply(l, sample) ==
    IF ~l.is_active THEN sample
    ELSE IF FLe(FAbs(sample), l.threshold) THEN sample
    ELSE SoftLimiterOver(l, sample, FAbs(sample),
                         DSub(FAbs(sample), l.threshold))

\* SoftLimiter::process_buffer
SoftLimiterProcessBuffer(l, buffer) ==
    [i \in 1..Len(buffer) |-> SoftLimiterApply(l, buffer[i])]

-----------------------------------------------------------------------------
(* filters/compressor.rs: compress_rms *)

\* The power envelope is a pair <<a, r>> standing for a + r * 1e-10: the
\* floor 1e-10 of the envelope's target lies below every positive value the
\* model can hold, so it is carried as a multiple of its own.
EnvelopeFloor == <<Zero, One>>

\* let mut envelope = 0.0; let mut gain = 1.0;
CompressorStart == [envelope |-> <<Zero, Zero>>, gain |-> One]

\* sample_sq.max(1e-10)
EnvelopeTarget(sample_sq) ==
    IF IsNaN(sample_sq) \/ sample_sq = Zero THEN EnvelopeFloor
    ELSE <<sample_sq, Zero>>

\* target > envelope
EnvelopeGt(t, e) ==
    IF t[1] # e[1] THEN FGt(t[1], e[1]) ELSE FGt(t[2], e[2])

\* envelope.log10()
EnvelopeLog10(e) ==
    IF e[1] = Zero THEN DSub(Log10(e[2]), <<10, 1>>) ELSE Log10(e[1])

\* (-1.0 / (ms * 0.001 * sample_rate)).exp()
SmoothingCoeff(ms, sample_rate) ==
    Exp(DDiv(<<-1, 1>>, DMul(DMul(ms, <<1, 1000>>), sample_rate)))

\* (1.0 - coeff) * target + coeff * state
Smooth(coeff, target, state) ==
    DAdd(DMul(DSub(One, coeff), target), DMul(coeff, state))

\* A faulty push: the output sample is pushed whatever it is.
CompressOutputUnchecked(envelope, gain, output) ==
    [envelope |-> envelope, gain |-> gain, pushed |-> output]

\* The last lines of the loop body: the smoothed gain and the sample pushed.
CompressOutput(envelope, gain, output) ==
    [envelope |-> envelope, gain |-> gain,
     pushed |-> IF IsFinite(output) THEN output ELSE Zero]
CompressGain(sample, envelope, gain) ==
    CompressOutput(envelope, gain, DMul(sample, gain))

\* A faulty target gain: the overage is added rather than taken away.
TargetGainExpanding(env_db, threshold, inverse_ratio) ==
    IF FGt(env_db, threshold)
    THEN Powf10(DDiv(DMul(FMax(DSub(env_db, threshold), Zero),
                          DSub(One, inverse_ratio)),
                     <<20, 1>>))
    ELSE One

\* reduction_db and target_gain from the envelope in dB.
TargetGain(env_db, threshold, inverse_ratio) ==
    IF FGt(env_db, threshold)
    THEN Powf10(DDiv(FNeg(DMul(FMax(DSub(env_db, threshold), Zero),
                               DSub(One, inverse_ratio))),
                     <<20, 1>>))
    ELSE One

CompressEnvelope(st, sample, envelope, coeff, threshold, inverse_ratio) ==
    CompressGain(sample, envelope,
                 Smooth(coeff,
                        TargetGain(DMul(<<10, 1>>, EnvelopeLog10(envelope)),
                                   threshold, inverse_ratio),
                        st.gain))

CompressCoeff(st, sample, target, coeff, threshold, inverse_ratio) ==
    CompressEnvelope(st, sample,
                     <<Smooth(coeff, target[1], st.envelope[1]),
                       Smooth(coeff, target[2], st.envelope[2])>>,
                     coeff, threshold, inverse_ratio)

CompressTarget(st, sample, target, threshold, inverse_ratio, attack_coeff, release_coeff) ==
    CompressCoeff(st, sample, target,
                  IF EnvelopeGt(target, st.envelope) THEN attack_coeff
                  ELSE release_coeff,
                  threshold, inverse_ratio)

\* One iteration of the loop of compress_rms: the state after the sample
\* and the sample pushed to the result.
CompressSample(st, sample, threshold, inverse_ratio, attack_coeff, release_coeff) ==
    CompressTarget(st, sample, EnvelopeTarget(DMul(sample, sample)),
                   threshold, inverse_ratio, attack_coeff, release_coeff)

RECURSIVE CompressFrom(_, _, _, _, _, _, _, _)
CompressNext(input, i, r, result, threshold, inverse_ratio, attack_coeff, release_coeff) ==
    Strict(r, CompressFrom(input, i + 1,
                           [envelope |-> r.envelope, gain |-> r.gain],
                           Append(result, r.pushed), threshold,
                           inverse_ratio, attack_coeff, release_coeff))
CompressFrom(input, i, st, result, threshold, inverse_ratio, attack_coeff, release_coeff) ==
    IF i > Len(input)
    THEN [envelope |-> st.envelope, gain |-> st.gain, out |-> result]
    ELSE CompressNext(input, i,
                      CompressSample(st, input[i], threshold, inverse_ratio,
                                     attack_coeff, release_coeff),
                      result, threshold, inverse_ratio, attack_coeff,
                      release_coeff)

\* compress_rms with the envelope and the gain its locals end with.
CompressRun(input, threshold, ratio, attack_ms, release_ms, sample_rate) ==
    IF input = <<>> \/ threshold = NegInf
    THEN [envelope |-> CompressorStart.envelope,
          gain |-> CompressorStart.gain, out |-> input]
    ELSE CompressFrom(input, 1, CompressorStart, <<>>, threshold,
                      DDiv(One, ratio),
                      SmoothingCoeff(attack_ms, sample_rate),
                      SmoothingCoeff(release_ms, sample_rate))

CompressRms(input, threshold, ratio, attack_ms, release_ms, sample_rate) ==
    CompressRun(input, threshold, ratio, attack_ms, release_ms,
                sample_rate).out

-----------------------------------------------------------------------------
(* filters/multiband.rs: BandParams and MultibandCompressor *)

NoMB == [tag |-> "none"]

BandParams(low_freq, high_freq, threshold, ratio, attack_ms, release_ms) ==
    [low_freq |-> low_freq, high_freq |-> high_freq, threshold |-> threshold,
     ratio |-> ratio, attack_ms |-> attack_ms, release_ms |-> release_ms]

\* sort_by(|a, b| a.low_freq.partial_cmp(&b.low_freq).unwrap()): a stable
\* sort; the unwrap panics when a NaN is compared.
SortPanics(bands) ==
    Len(bands) >= 2 /\ \E i \in 1..Len(bands) : IsNaN(bands[i].low_freq)

RECURSIVE InsertBand(_, _)
InsertBand(sorted, b) ==
    IF sorted = <<>> THEN <<b>>
    ELSE IF FLt(b.low_freq, sorted[Len(sorted)].low_freq)
         THEN Append(InsertBand(SubSeq(sorted, 1, Len(sorted) - 1), b),
                     sorted[Len(sorted)])
         ELSE Append(sorted, b)

RECURSIVE SortBandsFrom(_, _, _)
SortBandsFrom(bands, i, sorted) ==
    IF i > Len(bands) THEN sorted
    ELSE SortBandsFrom(bands, i + 1, InsertBand(sorted, bands[i]))

SortBands(bands) == SortBandsFrom(bands, 1, <<>>)

\* Faulty assertions: a band whose edges coincide is let through.
BandAssertionsLenient(sorted) ==
    \A i \in 1..Len(sorted) :
        /\ i > 1 => FGe(sorted[i].low_freq, sorted[i - 1].high_freq)
        /\ FLe(sorted[i].low_freq, sorted[i].high_freq)

\* The two assertions of new on the sorted bands.
BandAssertionsHold(sorted) ==
    \A i \in 1..Len(sorted) :
        /\ i > 1 => FGe(sorted[i].low_freq, sorted[i - 1].high_freq)
        /\ FLt(sorted[i].low_freq, sorted[i].high_freq)

\* The band edges butterworth_bandpass designs the filter from.
BandEdges(low_freq, high_freq, sample_rate) ==
    LET nyquist == FMul(sample_rate, <<49, 100>>)
        low == FMin(FMax(low_freq, <<20, 1>>), nyquist)
        high == FMin(FMax(high_freq, FMul(low, <<11, 10>>)), nyquist)
    IN  [low |-> low, high |-> high]

\* 2.0 * sample_rate * (PI * freq / sample_rate).tan() at 44.1 kHz, for the
\* edges the model's band lists lead to.
Prewarp(freq) ==
    CASE freq = <<20, 1>> -> <<1256, 10>>
      [] freq = <<200, 1>> -> <<1256, 1>>
      [] freq = <<20000, 1>> -> <<599600, 1>>
      [] freq = <<21609, 1>> -> <<2806000, 1>>

\* At 44.1 kHz and for the same edges: w0 = (omega_low * omega_high).sqrt(),
\* w0.cos(), and center_gain, a quotient of two sums that cancel to
\* within rounding and that f32 evaluates to 2 within one percent.
CentreOf(low, high) ==
    CASE low = <<20, 1>> /\ high = <<20000, 1>> ->
            [w0 |-> <<8680, 1>>, cos |-> <<-8802, 10000>>,
             center_gain |-> <<2, 1>>]
      [] low = <<20, 1>> /\ high = <<200, 1>> ->
            [w0 |-> <<3973, 10>>, cos |-> <<1437, 100000>>,
             center_gain |-> <<2, 1>>]
      [] low = <<200, 1>> /\ high = <<20000, 1>> ->
            [w0 |-> <<27450, 1>>, cos |-> <<8701, 10000>>,
             center_gain |-> <<2, 1>>]
      [] low = <<20, 1>> /\ high = <<21609, 1>> ->
            [w0 |-> <<18770, 1>>, cos |-> <<8731, 10000>>,
             center_gain |-> <<2014, 1000>>]
      [] low = <<21609, 1>> /\ high = <<21609, 1>> ->
            [w0 |-> <<2806000, 1>>, cos |-> <<-9937, 10000>>,
             center_gain |-> NaN]

Sqrt2 == <<1414, 1000>>

\* The last lines of butterworth_bandpass: the gain correction of b.
CorrectedBandpass(b0, a1, a2, gain_correction) ==
    [b |-> <<DMul(b0, gain_correction), DMul(Zero, gain_correction),
             DMul(FNeg(b0), gain_correction)>>,
     a |-> <<One, a1, a2>>]

BandpassB0(c, b0, a1, a2) ==
    CorrectedBandpass(b0, a1, a2,
                      DDiv(One, Sqrt(IF IsNaN(b0) THEN NaN
                                     ELSE c.center_gain)))

BandpassA0(c, alpha, a0) ==
    BandpassB0(c, DMul(DDiv(alpha, a0), Sqrt2),
               DDiv(DMul(<<-2, 1>>, c.cos), a0),
               DDiv(DSub(One, alpha), a0))

BandpassAlpha(c, alpha) == BandpassA0(c, alpha, DAdd(One, alpha))

BandpassEdges(edges, c) ==
    BandpassAlpha(c, DDiv(c.w0, DSub(Prewarp(edges.high), Prewarp(edges.low))))

BandpassBetween(edges) == BandpassEdges(edges, CentreOf(edges.low, edges.high))

ButterworthBandpass(low_freq, high_freq, sample_rate) ==
    BandpassBetween(BandEdges(low_freq, high_freq, sample_rate))

\* The filter of band i: its low edge is the high_freq of the band before.
DesignBand(sorted, i, sample_rate) ==
    ButterworthBandpass(IF i = 1 THEN Zero ELSE sorted[i - 1].high_freq,
                        sorted[i].high_freq, sample_rate)

MultibandSorted(sorted, sample_rate) ==
    IF ~BandAssertionsHold(sorted) THEN Err("panic")
    ELSE Ok([tag |-> "multiband",
             sample_rate |-> sample_rate,
             bands |-> sorted,
             x_history |-> [i \in 1..Len(sorted) |-> <<Zero, Zero, Zero>>],
             y_history |-> [i \in 1..Len(sorted) |-> <<Zero, Zero, Zero>>],
             a_coeffs |-> [i \in 1..Len(sorted) |->
                              DesignBand(sorted, i, sample_rate).a],
             b_coeffs |-> [i \in 1..Len(sorted) |->
                              DesignBand(sorted, i, sample_rate).b]])

\* A faulty new: the bands are checked in the order they were given.
MultibandNewUnsorted(bands, sample_rate) ==
    IF SortPanics(bands) THEN Err("panic")
    ELSE MultibandSorted(bands, sample_rate)

\* MultibandCompressor::new: the instance, or the panic.
MultibandNew(bands, sample_rate) ==
    IF SortPanics(bands) THEN Err("panic")
    ELSE MultibandSorted(SortBands(bands), sample_rate)

\* The band-pass filter of one band over the input: the difference
\* equation in direct form I, with the band's two histories.
RECURSIVE FilterBandFrom(_, _, _, _, _, _, _)
FilterBandNext(b, a, input, n, xh, yh, out, y) ==
    Strict(y, FilterBandFrom(b, a, input, n + 1, <<input[n], xh[1], xh[2]>>,
                             <<y, yh[1], yh[2]>>, Append(out, y)))
FilterBandFrom(b, a, input, n, xh, yh, out) ==
    IF n > Len(input) THEN [x_history |-> xh, y_history |-> yh, out |-> out]
    ELSE FilterBandNext(b, a, input, n, xh, yh, out,
             DDiv(DSub(DSub(DAdd(DAdd(DMul(b[1], input[n]), DMul(b[2], xh[1])),
                                 DMul(b[3], xh[2])),
                            DMul(a[2], yh[1])),
                       DMul(a[3], yh[2])),
                  a[1]))

\* output[n] += compressed[n]
MixInto(output, compressed) ==
    [n \in 1..Len(output) |->
        IF n <= Len(compressed) THEN DAdd(output[n], compressed[n])
        ELSE output[n]]

RECURSIVE MultibandFrom(_, _, _, _, _)

\* A faulty process: the histories of band i are written to every band.
MultibandCompressedShared(m, input, i, output, ends, f, c) ==
    Strict(<<f, c>>,
           MultibandFrom([m EXCEPT
                             !.x_history = [j \in 1..Len(m.bands) |-> f.x_history],
                             !.y_history = [j \in 1..Len(m.bands) |-> f.y_history]],
                         input, i + 1, MixInto(output, c.out),
                         Append(ends, [envelope |-> c.envelope,
                                       gain |-> c.gain])))

\* MultibandCompressor::process: band i and the bands after it.  ends holds,
\* per band, the envelope and the gain compress_rms finished with.
MultibandCompressed(m, input, i, output, ends, f, c) ==
    Strict(<<f, c>>,
           MultibandFrom([m EXCEPT !.x_history[i] = f.x_history,
                                   !.y_history[i] = f.y_history],
                         input, i + 1, MixInto(output, c.out),
                         Append(ends, [envelope |-> c.envelope,
                                       gain |-> c.gain])))
MultibandFiltered(m, input, i, output, ends, band, f) ==
    MultibandCompressed(m, input, i, output, ends, f,
                        CompressRun(f.out, band.threshold, band.ratio,
                                    band.attack_ms, band.release_ms,
                                    m.sample_rate))
MultibandFrom(m, input, i, output, ends) ==
    IF i > Len(m.bands) THEN [mb |-> m, out |-> output, ends |-> ends]
    ELSE MultibandFiltered(m, input, i, output, ends, m.bands[i],
                           FilterBandFrom(m.b_coeffs[i], m.a_coeffs[i], input,
                                          1, m.x_history[i], m.y_history[i],
                                          <<>>))

\* compress_rms takes no state: every band's compression begins from the
\* initial values of its locals.
BandStarts(m) == [i \in 1..Len(m.bands) |-> CompressorStart]

MultibandProcess(m, input) ==
    MultibandFrom(m, input, 1, [n \in 1..Len(input) |-> Zero], <<>>)

-----------------------------------------------------------------------------
(* filters/wiener_filter.rs: reduce_noise_wiener *)
(* The transform has 2 or 4 points, where the real DFT needs no rounding.  *)

RECURSIVE PowerOfTwoFrom(_, _)
PowerOfTwoFrom(n, p) == IF p >= n THEN p ELSE PowerOfTwoFrom(n, 2 * p)

\* usize::next_power_of_two
NextPowerOfTwo(n) == PowerOfTwoFrom(n, 1)

\* 0.5 * (1.0 - (2.0 * PI * i / (fft_size - 1)).cos()) for i in 0..fft_size
HannWindow(fft_size) ==
    CASE fft_size = 2 -> <<Zero, Zero>>
      [] fft_size = 4 -> <<Zero, <<3, 4>>, <<3, 4>>, Zero>>

Complex(re, im) == <<re, im>>
CScale(z, k) == <<DMul(z[1], k), DMul(z[2], k)>>
CAdd(z, w) == <<DAdd(z[1], w[1]), DAdd(z[2], w[2])>>
NormSqr(z) == DAdd(DMul(z[1], z[1]), DMul(z[2], z[2]))

\* RealToComplex::process: bins 0..fft_size/2 of the forward transform.
Rfft(x, fft_size) ==
    IF fft_size = 2
    THEN <<Complex(DAdd(x[1], x[2]), Zero), Complex(DSub(x[1], x[2]), Zero)>>
    ELSE <<Complex(DAdd(DAdd(x[1], x[2]), DAdd(x[3], x[4])), Zero),
           Complex(DSub(x[1], x[3]), DSub(x[4], x[2])),
           Complex(DAdd(DSub(x[1], x[2]), DSub(x[3], x[4])), Zero)>>

\* ComplexToReal::process: the inverse transform, not normalised.
Irfft(X, fft_size) ==
    IF fft_size = 2
    THEN <<DAdd(X[1][1], X[2][1]), DSub(X[1][1], X[2][1])>>
    ELSE <<DAdd(DAdd(X[1][1], X[3][1]), DMul(<<2, 1>>, X[2][1])),
           DSub(DSub(X[1][1], X[3][1]), DMul(<<2, 1>>, X[2][2])),
           DSub(DAdd(X[1][1], X[3][1]), DMul(<<2, 1>>, X[2][1])),
           DAdd(DSub(X[1][1], X[3][1]), DMul(<<2, 1>>, X[2][2]))>>

\* The noise profile cut or zero-padded to num_bins.
NoiseSpectrum(noise_profile, num_bins) ==
    [j \in 1..num_bins |->
        IF j <= Len(noise_profile) THEN Complex(noise_profile[j], Zero)
        ELSE Complex(Zero, Zero)]

\* signal_power / (signal_power + noise_power + 1e-10): the 1e-10 lies
\* below every positive value of the model and decides the case 0 / 0 only.
SnrOf(signal_power, total) ==
    IF total = Zero THEN Zero ELSE DDiv(signal_power, total)
Snr(signal_power, noise_power) ==
    SnrOf(signal_power, DAdd(signal_power, noise_power))

\* One window: the new spectral estimate and the frame it transforms to.
WienerFrame(updated, fft_size) ==
    [estimate |-> updated, out_buffer |-> Irfft(updated, fft_size)]

\* The Wiener gain on the window's spectrum, smoothed into the estimate.
WienerSpectrum(spectrum, fft_size, noise_spectrum, estimate, smoothing) ==
    WienerFrame([j \in 1..Len(noise_spectrum) |->
                    CAdd(CScale(estimate[j], smoothing),
                         CScale(CScale(spectrum[j],
                                       Snr(NormSqr(spectrum[j]),
                                           NormSqr(noise_spectrum[j]))),
                                DSub(One, smoothing)))],
                fft_size)

\* The windowed frame of the samples start..end, zero-padded to fft_size.
WienerInput(signal, start, end, fft_size, window) ==
    [j \in 1..fft_size |->
        IF j <= end - start THEN DMul(signal[start + j], window[j]) ELSE Zero]

WienerWindow(signal, start, fft_size, window, noise_spectrum, estimate, smoothing) ==
    WienerSpectrum(Rfft(WienerInput(signal, start,
                                    IF start + fft_size < Len(signal)
                                    THEN start + fft_size ELSE Len(signal),
                                    fft_size, window),
                        fft_size),
                   fft_size, noise_spectrum, estimate, smoothing)

\* The overlap-add loop from window i on.  start is counted from 0 as in
\* the source; the sequences are indexed from 1.
RECURSIVE WienerFrom(_, _, _, _, _, _, _, _, _, _)
\* output[start + j] += out_buffer[j] * scale * window[j]
OverlapAdd(output, start, fft_size, out_buffer, scale, window) ==
    [k \in 1..Len(output) |->
        IF k > start /\ k <= start + fft_size
        THEN DAdd(output[k],
                  DMul(DMul(out_buffer[k - start], scale), window[k - start]))
        ELSE output[k]]
\* window_sum[start + j] += window[j] * window[j]
WindowSumAdd(window_sum, start, fft_size, window) ==
    [k \in 1..Len(window_sum) |->
        IF k > start /\ k <= start + fft_size
        THEN DAdd(window_sum[k], DMul(window[k - start], window[k - start]))
        ELSE window_sum[k]]
WienerNext(signal, i, num_windows, hop_size, fft_size, window, noise_spectrum, smoothing, w, acc) ==
    Strict(<<w, acc>>,
           WienerFrom(signal, i + 1, num_windows, hop_size, fft_size, window,
                      noise_spectrum, w.estimate, smoothing, acc))
WienerAdd(signal, i, num_windows, hop_size, fft_size, window, noise_spectrum, smoothing, acc, w) ==
    WienerNext(signal, i, num_windows, hop_size, fft_size, window,
               noise_spectrum, smoothing, w,
               [output |-> OverlapAdd(acc.output, i * hop_size, fft_size,
                                      w.out_buffer, Q(1, fft_size), window),
                window_sum |-> WindowSumAdd(acc.window_sum, i * hop_size,
                                            fft_size, window)])
WienerFrom(signal, i, num_windows, hop_size, fft_size, window, noise_spectrum, estimate, smoothing, acc) ==
    IF i >= num_windows \/ i * hop_size >= Len(signal) THEN acc
    ELSE WienerAdd(signal, i, num_windows, hop_size, fft_size, window,
                   noise_spectrum, smoothing, acc,
                   WienerWindow(signal, i * hop_size, fft_size, window,
                                noise_spectrum, estimate, smoothing))

\* A faulty last step: the overlap-add buffer is returned whole, with the
\* fft_size samples of padding behind the signal.
WienerUntruncated(signal, acc) ==
    [k \in 1..Len(acc.output) |->
        IF k <= Len(signal) /\ FGt(acc.window_sum[k], Zero)
        THEN DDiv(acc.output[k], acc.window_sum[k])
        ELSE acc.output[k]]

\* output[i] /= window_sum[i] where window_sum[i] > 0, then truncate.
WienerNormalized(signal, acc) ==
    SubSeq([k \in 1..Len(acc.output) |->
               IF k <= Len(signal) /\ FGt(acc.window_sum[k], Zero)
               THEN DDiv(acc.output[k], acc.window_sum[k])
               ELSE acc.output[k]],
           1, Len(signal))

WienerWith(signal, hop_size, size, noise_spectrum, smoothing, zeros) ==
    WienerNormalized(signal,
                     WienerFrom(signal, 0,
                                (Len(signal) + hop_size - 1) \div hop_size,
                                hop_size, size, HannWindow(size),
                                noise_spectrum, noise_spectrum, smoothing,
                                [output |-> zeros, window_sum |-> zeros]))

WienerSized(signal, noise_profile, hop_size, smoothing, size) ==
    WienerWith(signal, hop_size, size,
               NoiseSpectrum(noise_profile, size \div 2 + 1), smoothing,
               [k \in 1..(Len(signal) + size) |-> Zero])

\* for i in 0..num_windows { let start = i * hop_size; if start >=
\* signal.len() { break; } ... }: the starts of the windows the loop
\* transforms, counted from 0.
WindowStarts(len, hop_size) ==
    {i * hop_size : i \in {i \in 0..((len + hop_size - 1) \div hop_size) - 1 :
                               i * hop_size < len}}

\* A faulty reduce_noise_wiener: an empty noise profile is not turned away.
ReduceNoiseWienerAnyProfile(signal, noise_profile, fft_size, hop_size, smoothing) ==
    IF signal = <<>> \/ fft_size = 0 \/ hop_size = 0
    THEN signal
    ELSE WienerSized(signal, noise_profile, hop_size, smoothing,
                     NextPowerOfTwo(fft_size))

\* reduce_noise_wiener: the degenerate calls return the input before any
\* window is transformed.
ReduceNoiseWiener(signal, noise_profile, fft_size, hop_size, smoothing) ==
    IF signal = <<>> \/ noise_profile = <<>> \/ fft_size = 0 \/ hop_size = 0
    THEN signal
    ELSE WienerSized(signal, noise_profile, hop_size, smoothing,
                     NextPowerOfTwo(fft_size))

-----------------------------------------------------------------------------
(* filters/equalizer.rs: ParametricEQ and parametric_eq *)
(* The filters come from the biquad crate, which is not part of the        *)
(* repository: its coefficients (low shelf at 250 Hz, peaking filter at    *)
(* 775 Hz, high shelf at 2.5 kHz, all at 44.1 kHz) are tabulated.          *)

\* Coefficients::from_params, normalised by a0.
BiquadCoefficients(kind, gain_db) ==
    CASE kind = "low_shelf" /\ gain_db = Zero ->
            [b |-> <<One, <<-19496, 10000>>, <<9509, 10000>>>>,
             a |-> <<<<-19496, 10000>>, <<9509, 10000>>>>]
      [] kind = "peaking" /\ gain_db = Zero ->
            [b |-> <<One, <<-19346, 10000>>, <<9464, 10000>>>>,
             a |-> <<<<-19346, 10000>>, <<9464, 10000>>>>]
      [] kind = "high_shelf" /\ gain_db = Zero ->
            [b |-> <<One, <<-15037, 10000>>, <<6044, 10000>>>>,
             a |-> <<<<-15037, 10000>>, <<6044, 10000>>>>]
      [] kind = "high_shelf" /\ gain_db = <<6, 1>> ->
            [b |-> <<<<18307, 10000>>, <<-28917, 10000>>, <<11967, 10000>>>>,
             a |-> <<<<-14154, 10000>>, <<5512, 10000>>>>]

\* DirectForm1::new
DirectForm1(coeffs) ==
    [b |-> coeffs.b, a |-> coeffs.a, x1 |-> Zero, x2 |-> Zero, y1 |-> Zero,
     y2 |-> Zero]

\* DirectForm1::run
BiquadStep(f, x, out) ==
    [filter |-> [f EXCEPT !.x2 = f.x1, !.x1 = x, !.y2 = f.y1, !.y1 = out],
     out |-> out]
BiquadRun(f, x) ==
    BiquadStep(f, x,
               DSub(DSub(DAdd(DAdd(DMul(f.b[1], x), DMul(f.b[2], f.x1)),
                              DMul(f.b[3], f.x2)),
                         DMul(f.a[1], f.y1)),
                    DMul(f.a[2], f.y2)))

ParametricEQNew(sample_rate, low_gain, mid_gain, high_gain) ==
    [sample_rate |-> sample_rate, low_gain |-> low_gain,
     mid_gain |-> mid_gain, high_gain |-> high_gain,
     low_filter |-> DirectForm1(BiquadCoefficients("low_shelf", low_gain)),
     mid_filter |-> DirectForm1(BiquadCoefficients("peaking", mid_gain)),
     high_filter |-> DirectForm1(BiquadCoefficients("high_shelf", high_gain))]

SoftLimitThreshold == <<9, 10>>

\* ParametricEQ::process
\* The soft limiter at the end of process, applied above the threshold.
EqSoftLimit(result) ==
    IF FGt(FAbs(result), SoftLimitThreshold)
    THEN DMul(FSignum(result),
              DAdd(SoftLimitThreshold,
                   DMul(DSub(One, SoftLimitThreshold),
                        Tanh(DDiv(DSub(FAbs(result), SoftLimitThreshold),
                                  DSub(One, SoftLimitThreshold))))))
    ELSE result

EqHigh(eq, low, mid, high) ==
    [eq |-> [eq EXCEPT !.low_filter = low.filter,
                       !.mid_filter = mid.filter,
                       !.high_filter = high.filter],
     out |-> EqSoftLimit(high.out)]
EqMid(eq, low, mid) == EqHigh(eq, low, mid, BiquadRun(eq.high_filter, mid.out))
EqLow(eq, low) == EqMid(eq, low, BiquadRun(eq.mid_filter, low.out))
EqProcessSample(eq, sample) == EqLow(eq, BiquadRun(eq.low_filter, sample))

\* ParametricEQ::process_buffer
RECURSIVE EqProcessFrom(_, _, _, _)
EqProcessNext(buffer, i, out, r) ==
    Strict(r, EqProcessFrom(r.eq, buffer, i + 1, Append(out, r.out)))
EqProcessFrom(eq, buffer, i, out) ==
    IF i > Len(buffer) THEN out
    ELSE EqProcessNext(buffer, i, out, EqProcessSample(eq, buffer[i]))

Scaled(buffer, k) == [i \in 1..Len(buffer) |-> DMul(buffer[i], k)]

\* The rescaling to the input's peak after a scaled-down run.
EqRestored(input_peak, scale_factor, equalized, output_peak) ==
    IF FLt(scale_factor, One) /\ FGt(output_peak, Zero)
    THEN Scaled(equalized, DDiv(FMin(input_peak, One), output_peak))
    ELSE equalized

EqEqualized(input_peak, scale_factor, equalized) ==
    EqRestored(input_peak, scale_factor, equalized, Peak(equalized))

EqScaled(input, eq, input_peak, scale_factor) ==
    EqEqualized(input_peak, scale_factor,
                EqProcessFrom(eq,
                              IF FLt(scale_factor, One)
                              THEN Scaled(input, scale_factor) ELSE input,
                              1, <<>>))

EqPeaked(input, eq, max_gain, input_peak) ==
    EqScaled(input, eq, input_peak,
             IF FGt(input_peak, Zero) THEN FMin(DDiv(One, max_gain), One)
             ELSE One)

EqClamped(input, sample_rate, low, mid, high) ==
    EqPeaked(input, ParametricEQNew(sample_rate, low, mid, high),
             Powf10(DDiv(FAbs(FMax(FMax(low, mid), high)), <<20, 1>>)),
             Peak(input))

EqGainBound == <<12, 1>>

ParametricEq(input, sample_rate, low_gain, mid_gain, high_gain) ==
    EqClamped(input, sample_rate,
              FClamp(low_gain, FNeg(EqGainBound), EqGainBound),
              FClamp(mid_gain, FNeg(EqGainBound), EqGainBound),
              FClamp(high_gain, FNeg(EqGainBound), EqGainBound))

-----------------------------------------------------------------------------
(* processor.rs: ClearCastProcessor *)

NoProcessor == [tag |-> "none"]

DefaultProfileLen == 1024

\* ClearCastProcessor::new
ProcessorNew(sample_rate) ==
    [tag |-> "processor",
     sample_rate |-> sample_rate,
     noise_profile |-> [i \in 1..DefaultProfileLen |-> <<1, 100>>],
     eq_bands |-> <<Zero, Zero, Zero>>,
     compressor_params |-> <<<<-20, 1>>, <<4, 1>>, <<10, 1>>, <<100, 1>>>>,
     target_rms |-> <<1, 10>>,
     limiter_threshold |-> <<19, 20>>]

\* usize as f32, and f32 as usize: the cast truncates, NaN and negative
\* values become 0.
AsF32(n) == <<n, 1>>
AsUsize(x) ==
    IF IsNaN(x) \/ Sign(x) <= 0 THEN 0
    ELSE IF x = PosInf THEN 2147483647
    ELSE x[1] \div x[2]

ConfigureNoiseReduction(p, noise_profile, fft_size, hop_size, smoothing) ==
    [p EXCEPT !.noise_profile =
        noise_profile \o <<AsF32(fft_size), AsF32(hop_size), smoothing>>]

ConfigureEq(p, low_gain, mid_gain, high_gain) ==
    [p EXCEPT !.eq_bands = <<low_gain, mid_gain, high_gain>>]

ConfigureCompressor(p, threshold, ratio, attack_ms, release_ms) ==
    [p EXCEPT !.compressor_params = <<threshold, ratio, attack_ms, release_ms>>]

\* f32::max and f32::min return the other operand when one is NaN.
SetTargetRms(p, target_rms) ==
    [p EXCEPT !.target_rms = FMin(FMax(target_rms, Zero), One)]

SetLimiterThreshold(p, threshold) ==
    [p EXCEPT !.limiter_threshold = FMin(FMax(threshold, Zero), One)]

\* ClearCastProcessor::apply_soft_limiter, one sample
ProcLimitSample(p, sample) ==
    IF FGt(FAbs(sample), p.limiter_threshold)
    THEN DMul(FSignum(sample),
              DAdd(p.limiter_threshold,
                   DSub(One,
                        Exp(DMul(FNeg(DSub(FAbs(sample), p.limiter_threshold)),
                                 <<10, 1>>)))))
    ELSE sample

ProcApplySoftLimiter(p, samples) ==
    [i \in 1..Len(samples) |-> ProcLimitSample(p, samples[i])]

RECURSIVE SumSqFrom(_, _, _)
SumSqNext(samples, i, next) == Strict(next, SumSqFrom(samples, i + 1, next))
SumSqFrom(samples, i, sum) ==
    IF i > Len(samples) THEN sum
    ELSE SumSqNext(samples, i, DAdd(sum, DMul(samples[i], samples[i])))

\* ClearCastProcessor::normalize_rms
NormalizeToRms(p, samples, rms) ==
    IF FLt(rms, F32_EPSILON) THEN samples
    ELSE Scaled(samples, DDiv(p.target_rms, rms))
NormalizeRms(p, samples) ==
    NormalizeToRms(p, samples,
                   Sqrt(DDiv(SumSqFrom(samples, 1, Zero),
                             AsF32(Len(samples)))))

\* Stage 1 of process_audio: the Wiener filter, when a profile with its
\* three trailing parameters is configured.
ProcNoiseReductionWith(p, input, n, profile) ==
    IF n > 3 /\ profile # <<>>
    THEN [ran |-> TRUE,
          out |-> ReduceNoiseWiener(input, profile,
                                    AsUsize(p.noise_profile[n - 2]),
                                    AsUsize(p.noise_profile[n - 1]),
                                    p.noise_profile[n])]
    ELSE [ran |-> FALSE, out |-> input]
ProcNoiseReduction(p, input) ==
    ProcNoiseReductionWith(p, input, Len(p.noise_profile),
                           SubSeq(p.noise_profile, 1,
                                  Len(p.noise_profile) - 3))

\* Stage 2 of process_audio: the equaliser, unless the EQ is flat.
ProcEqualize(p, processed) ==
    IF p.eq_bands # <<Zero, Zero, Zero>>
    THEN [ran |-> TRUE,
          out |-> ParametricEq(processed, p.sample_rate, p.eq_bands[1],
                               p.eq_bands[2], p.eq_bands[3])]
    ELSE [ran |-> FALSE, out |-> processed]

\* Stages 3 to 5 of process_audio: compression, the soft limiter and the
\* RMS normalisation, each on the result of the one before.
ProcDynamics(p, equalized) ==
    NormalizeRms(p,
        ProcApplySoftLimiter(p,
            CompressRms(equalized, p.compressor_params[1],
                        p.compressor_params[2], p.compressor_params[3],
                        p.compressor_params[4], p.sample_rate)))

\* A faulty pipeline: the RMS normalisation runs before the soft limiter.
ProcNormalizeBeforeLimit(p, denoised, equalized) ==
    [out |-> ProcApplySoftLimiter(p,
                 NormalizeRms(p,
                     CompressRms(equalized.out, p.compressor_params[1],
                                 p.compressor_params[2],
                                 p.compressor_params[3],
                                 p.compressor_params[4], p.sample_rate))),
     stages |-> (IF denoised.ran THEN <<"wiener">> ELSE <<>>)
                \o (IF equalized.ran THEN <<"eq">> ELSE <<>>)
                \o <<"compress", "normalize", "limit">>]

\* The tail of process_audio after the equaliser, with the names of the
\* stages that ran, in the order they ran.
ProcEqualized(p, denoised, equalized) ==
    [out |-> ProcDynamics(p, equalized.out),
     stages |-> (IF denoised.ran THEN <<"wiener">> ELSE <<>>)
                \o (IF equalized.ran THEN <<"eq">> ELSE <<>>)
                \o <<"compress", "limit", "normalize">>]

\* The tail of process_audio after the noise reduction.
ProcDenoised(p, denoised) ==
    ProcEqualized(p, denoised, ProcEqualize(p, denoised.out))

\* A faulty process_audio: the empty buffer is sent through the stages.
ProcessAudioUnguarded(p, input) ==
    ProcDenoised(p, ProcNoiseReduction(p, input))

\* ClearCastProcessor::process_audio: the buffer it returns and the stages
\* it ran; an empty input returns at once.
ProcessAudio(p, input) ==
    IF input = <<>> THEN [out |-> <<>>, stages |-> <<>>]
    ELSE ProcDenoised(p, ProcNoiseReduction(p, input))

-----------------------------------------------------------------------------
(* effects/normalize.rs: normalize_rms, and utils/mod.rs: normalize_audio *)

\* rms <= f32::MIN_POSITIVE: the smallest positive normal f32 lies below
\* every value the decimal form keeps, so the test is one against zero.
RmsIsSilent(rms) == FLe(rms, Zero)

EffectsNormalizeTo(buffer, target_dbfs, rms) ==
    IF RmsIsSilent(rms) THEN buffer
    ELSE Scaled(buffer, DDiv(Powf10(DDiv(target_dbfs, <<20, 1>>)), rms))

\* effects::normalize_rms: the buffer after the call.
EffectsNormalizeRms(buffer, target_dbfs) ==
    IF buffer = <<>> THEN buffer
    ELSE EffectsNormalizeTo(buffer, target_dbfs,
                            Sqrt(DDiv(SumSqFrom(buffer, 1, Zero),
                                      AsF32(Len(buffer)))))

UtilsNormalizeBy(samples, max_val) ==
    IF FGt(max_val, Zero)
    THEN [i \in 1..Len(samples) |-> FMul(samples[i], FDiv(One, max_val))]
    ELSE samples

\* utils::normalize_audio: the samples after the call.
UtilsNormalizeAudio(samples) ==
    IF samples = <<>> THEN samples
    ELSE UtilsNormalizeBy(samples, Peak(samples))

-----------------------------------------------------------------------------
(* Bounds and the inputs the model draws from *)

MaxLen == 2          \* longest buffer handed to an engine stage
MaxChain == 2        \* longest effect chain
MaxChainLen == 1     \* longest buffer sent through an effect chain

Callers == {1, 2}
EffectIds == {1, 2}

RECURSIVE SeqsUpTo(_, _)
SeqsUpTo(S, n) ==
    IF n = 0 THEN {<<>>}
    ELSE LET shorter == SeqsUpTo(S, n - 1)
         IN  shorter \cup {Append(s, x) : s \in {t \in shorter : Len(t) = n - 1}, x \in S}

\* 1e-7 is a non-zero sample below f32::EPSILON.
Samples == {Zero, <<1, 10000000>>, <<3, 10>>, <<-1, 2>>, <<9, 10>>, <<-10, 1>>}
Buffers == SeqsUpTo(Samples, MaxLen)

NrtValues == {Zero, <<1, 10>>, <<-1, 10>>, <<11, 10>>}
PeakValues == {Zero, <<4, 5>>, One, <<11, 10>>}
LimiterConfigs ==
    { LimiterDefault,
      LimiterConfig(<<1, 2>>, <<1, 5>>, Zero, <<10, 1>>),
      LimiterConfig(<<1, 2>>, <<1, 5>>, <<20, 1>>, <<10, 1>>),
      LimiterConfig(<<1, 2>>, Zero, <<-20, 1>>, One),
      LimiterConfig(<<1, 2>>, <<1, 5>>, <<800, 1>>, <<10, 1>>),
      LimiterConfig(<<1, 2>>, <<1, 5>>, Zero, NaN),
      LimiterConfig(<<11, 10>>, <<1, 10>>, Zero, <<8, 1>>),
      LimiterConfig(<<9, 10>>, <<-1, 10>>, Zero, <<8, 1>>),
      LimiterConfig(<<9, 10>>, <<1, 10>>, Zero, <<1, 2>>) }

\* The effect instances a caller can register: Delay::new at 1 kHz.
EffectPool ==
    [e \in EffectIds |->
        IF e = 1 THEN DelayNew(Zero, Zero, <<1, 2>>, One, 1000)
        ELSE DelayNew(One, <<1, 2>>, One, <<1, 2>>, 1000)]

ChainSamples == {<<1, 2>>, <<-2, 1>>}
ChainBuffers == SeqsUpTo(ChainSamples, MaxChainLen)

MaxStageLen == 2     \* longest buffer handed to a filter or a pipeline
MaxStream == 4       \* most samples one MultibandCompressor is given

SampleRate == <<44100, 1>>
StageSamples == {Zero, One, <<-1, 2>>}
StageBuffers == SeqsUpTo(StageSamples, MaxStageLen)

\* threshold, ratio, attack_ms, release_ms
CompressorParams ==
    { <<<<-20, 1>>, <<4, 1>>, <<10, 1>>, <<100, 1>>>>,
      <<<<-40, 1>>, <<4, 1>>, Zero, <<100, 1>>>>,
      <<NegInf, <<4, 1>>, <<10, 1>>, <<100, 1>>>> }

NoiseProfiles == {<<>>, <<Zero>>, <<<<1, 10>>, <<1, 10>>, <<1, 10>>>>}
FftSizes == {0, 2, 3}
HopSizes == {0, 1, 2, 5}
Smoothings == {Zero, <<1, 2>>}

\* noise_profile, fft_size, hop_size, smoothing
NoiseConfigs ==
    { <<<<>>, 4, 2, <<1, 2>>>>,
      <<<<Zero>>, 4, 2, <<1, 2>>>>,
      <<<<<<1, 10>>, <<1, 10>>, <<1, 10>>>>, 3, 5, Zero>> }

\* low_gain, mid_gain, high_gain
EqGains == {<<Zero, Zero, Zero>>, <<Zero, Zero, <<6, 1>>>>}

RmsTargets == {<<2, 1>>}
LimiterThresholds == {<<1, 2>>}

DefaultBand(low_freq, high_freq) ==
    BandParams(low_freq, high_freq, <<-20, 1>>, <<4, 1>>, <<10, 1>>, <<100, 1>>)
FastBand(low_freq, high_freq) ==
    BandParams(low_freq, high_freq, <<-40, 1>>, <<4, 1>>, Zero, <<100, 1>>)

Hz(n) == <<n, 1>>

\* Band lists: none, one, a partition, the partition out of order, a gap,
\* an overlap, inverted and empty bands, a band above the Nyquist
\* frequency, and a NaN edge.
BandLists ==
    { <<>>,
      <<DefaultBand(Zero, Hz(20000))>>,
      <<FastBand(Zero, Hz(200)), DefaultBand(Hz(200), Hz(20000))>>,
      <<DefaultBand(Hz(200), Hz(20000)), FastBand(Zero, Hz(200))>>,
      <<FastBand(Zero, Hz(200)), DefaultBand(Hz(300), Hz(20000))>>,
      <<FastBand(Zero, Hz(300)), DefaultBand(Hz(200), Hz(20000))>>,
      <<DefaultBand(Hz(200), Hz(20000)), FastBand(Zero, Hz(300))>>,
      <<DefaultBand(Hz(500), Hz(200))>>,
      <<DefaultBand(Hz(200), Hz(200))>>,
      <<FastBand(Zero, Hz(200)), DefaultBand(Hz(20000), Hz(200))>>,
      <<DefaultBand(Zero, Hz(22050)), DefaultBand(Hz(22050), Hz(30000))>>,
      <<DefaultBand(NaN, Hz(200)), DefaultBand(Hz(200), Hz(20000))>>,
      <<DefaultBand(Zero, NaN)>> }

MaxDelayLen == 2     \* longest buffer handed to a Delay directly
MaxPasses == 2       \* most passes of one normaliser over one buffer

\* Delay::new at 1 kHz: delay_ms, feedback, wet and dry.
DelayRate == 1000
DelayTimes == {Zero, One, <<2, 1>>}
DelayFeedbacks == {Zero, <<1, 2>>}
DelayWets == {<<1, 2>>, One}
DelayDries == {<<1, 2>>}
DelaySamples == {Zero, One, <<-1, 2>>}
DelayBuffers == SeqsUpTo(DelaySamples, MaxDelayLen)

NormSamples == {Zero, <<3, 10>>, <<-1, 2>>, <<-10, 1>>, PosInf}
NormBuffers == SeqsUpTo(NormSamples, MaxLen)
\* target_dbfs of effects::normalize_rms: negative values and full scale.
NormTargets == {<<-12, 1>>, <<-20, 1>>, Zero}

\* Engines whose gate threshold is 0.1 and whose target_peak is 0, 0.8 and 1.
DirectEngines ==
    {EngineWithSettings(<<1, 10>>, tp).val : tp \in {Zero, <<4, 5>>, One}}

\* Buffers for the noise gate: with the peak 3e-5 the threshold is 3e-6, and
\* 2e-6 lies below it by no more than the gate's epsilon.
GateSamples == {Zero, <<1, 500000>>, <<3, 100000>>, <<1, 2>>}
GateBuffers == SeqsUpTo(GateSamples, MaxLen)

\* Samples that are not finite, next to two that are.
ExtremeSamples == {NaN, PosInf, NegInf, Zero, One}
ExtremeBuffers == SeqsUpTo(ExtremeSamples, MaxStageLen)

UnityBand(low_freq, high_freq) ==
    BandParams(low_freq, high_freq, <<-20, 1>>, One, <<10, 1>>, <<100, 1>>)

\* Samples on and around the thresholds of the stages, two of them inside
\* the knee of a limiter with threshold 0.5 and knee_width 0.2.
ThresholdSamples ==
    {Zero, <<1, 100>>, <<2, 5>>, <<9, 20>>, <<-1, 2>>, <<9, 10>>, One}
ThresholdBuffers == SeqsUpTo(ThresholdSamples, MaxLen)

\* Engines whose limiter has a knee, has none, or does not compress.
ThresholdLimiters ==
    { LimiterDefault,
      LimiterConfig(<<1, 2>>, <<1, 5>>, Zero, <<10, 1>>),
      LimiterConfig(<<1, 2>>, Zero, Zero, <<10, 1>>),
      LimiterConfig(<<1, 2>>, <<1, 5>>, Zero, One) }
ThresholdEngines ==
    { EngineWithLimiter(<<1, 2>>, tp, l).val :
          tp \in {One, <<2, 5>>}, l \in ThresholdLimiters }

\* threshold and knee of a SoftLimiter
SoftLimiterParams == {<<<<1, 2>>, <<1, 10>>>>, <<<<9, 10>>, Zero>>, <<One, One>>}

ThresholdCompressorParams ==
    CompressorParams \cup {<<Zero, <<4, 1>>, Zero, <<100, 1>>>>,
                           <<<<-40, 1>>, <<4, 1>>, <<10, 1>>, <<100, 1>>>>}

\* compress_rms takes the sample rate as any f32: the usual rate, a
\* negative one and a NaN.
ThresholdSampleRates == {SampleRate, FNeg(SampleRate), NaN}

\* Partitions whose bands all have ratio 1.0.
UnityBandLists ==
    { <<UnityBand(Zero, Hz(20000))>>,
      <<UnityBand(Zero, Hz(22050))>>,
      <<UnityBand(Zero, Hz(200)), UnityBand(Hz(200), Hz(20000))>> }

-----------------------------------------------------------------------------
(* The engine's operations *)

IdleCall == [c \in Callers |-> <<>>]
NoResult == [ok |-> TRUE, val |-> <<>>]
NoUnit == [op |-> "none", arg |-> <<>>, result |-> NoResult]
NoCtor == [fn |-> "none", args |-> <<>>, result |-> Err("none")]

\* No process call borrows the engine: add_effect and clear_effects take
\* &mut self.
Quiet == \A c \in Callers : pc[c] = "idle"

callVars == <<pc, buf, idx, inp, res, log, snap, holder>>

NoProcCall == [called |-> FALSE, arg |-> <<>>, out |-> <<>>, stages |-> <<>>]

\* The caller works with one object at a time: a call on one object begins
\* only while the others are untouched.
EngineAtRest == Quiet /\ (engine = NoEngine \/ engine.effects = <<>>)
StagesAtRest == unit = NoUnit
MultibandAtRest == mbCall = NoUnit
ProcessorAtRest == proc = NoProcessor

New ==
    /\ engine = NoEngine
    /\ engine' = EngineNew
    /\ ctor' = [fn |-> "new", args |-> <<>>, result |-> Ok(EngineNew)]
    /\ UNCHANGED <<fx, callVars, unit, mbVars, procVars, directVars>>

WithSettings(nrt, tp) ==
    /\ engine = NoEngine
    /\ LET r == EngineWithSettings(nrt, tp)
       IN  /\ ctor' = [fn |-> "with_settings", args |-> <<nrt, tp>>, result |-> r]
           /\ engine' = IF r.ok THEN r.val ELSE engine
    /\ UNCHANGED <<fx, callVars, unit, mbVars, procVars, directVars>>

WithLimiter(nrt, tp, limiter) ==
    /\ engine = NoEngine
    /\ LET r == EngineWithLimiter(nrt, tp, limiter)
       IN  /\ ctor' = [fn |-> "with_limiter", args |-> <<nrt, tp, limiter>>,
                       result |-> r]
           /\ engine' = IF r.ok THEN r.val ELSE engine
    /\ UNCHANGED <<fx, callVars, unit, mbVars, procVars, directVars>>

CallApplyNoiseReduction(audio) ==
    /\ engine # NoEngine
    /\ unit = NoUnit
    /\ \A c \in Callers : pc[c] = "idle"
    /\ unit' = [op |-> "apply_noise_reduction", arg |-> audio,
                result |-> ApplyNoiseReduction(engine, audio)]
    /\ UNCHANGED <<engine, ctor, fx, callVars, mbVars, procVars, directVars>>

CallApplySoftLimiter(samples) ==
    /\ engine # NoEngine
    /\ unit = NoUnit
    /\ \A c \in Callers : pc[c] = "idle"
    /\ unit' = [op |-> "apply_soft_limiter", arg |-> samples,
                result |-> Ok(ApplySoftLimiter(engine, samples))]
    /\ UNCHANGED <<engine, ctor, fx, callVars, mbVars, procVars, directVars>>

CallNormalizeAudio(audio) ==
    /\ engine # NoEngine
    /\ unit = NoUnit
    /\ \A c \in Callers : pc[c] = "idle"
    /\ unit' = [op |-> "normalize_audio", arg |-> audio,
                result |-> NormalizeAudio(engine, audio)]
    /\ UNCHANGED <<engine, ctor, fx, callVars, mbVars, procVars, directVars>>

\* The caller lets go of the buffer of its last direct stage call.
Drop ==
    /\ unit # NoUnit
    /\ unit' = NoUnit
    /\ UNCHANGED <<engine, ctor, fx, callVars, mbVars, procVars, directVars>>

AddEffect(e) ==
    /\ engine # NoEngine
    /\ Quiet
    /\ StagesAtRest /\ MultibandAtRest /\ ProcessorAtRest
    /\ Len(engine.effects) < MaxChain
    /\ engine' = [engine EXCEPT !.effects = Append(@, e)]
    /\ UNCHANGED <<ctor, fx, callVars, unit, mbVars, procVars, directVars>>

ClearEffects ==
    /\ engine # NoEngine
    /\ Quiet
    /\ engine.effects # <<>>
    /\ engine' = [engine EXCEPT !.effects = <<>>]
    /\ UNCHANGED <<ctor, fx, callVars, unit, mbVars, procVars, directVars>>

\* A faulty process: the empty input is not turned away and goes on to the
\* effect chain.
ProcessBeginUnchecked(c, input) ==
    /\ engine # NoEngine
    /\ pc[c] = "idle"
    /\ StagesAtRest /\ MultibandAtRest /\ ProcessorAtRest
    /\ inp' = [inp EXCEPT ![c] = input]
    /\ snap' = IF \A d \in Callers : pc[d] = "idle" THEN fx ELSE snap
    /\ buf' = [buf EXCEPT ![c] = IF input = <<>> THEN input
                                 ELSE ApplyNoiseReduction(engine, input).val]
    /\ log' = [log EXCEPT ![c] = <<<<"noise_gate", 0>>>>]
    /\ idx' = [idx EXCEPT ![c] = 1]
    /\ pc' = [pc EXCEPT ![c] = "effects"]
    /\ UNCHANGED <<engine, ctor, fx, holder, res, unit, mbVars, procVars, directVars>>

\* AudioEngine::process up to the effect chain: the empty-input check and
\* the noise gate.
ProcessBegin(c, input) ==
    /\ engine # NoEngine
    /\ pc[c] = "idle"
    /\ StagesAtRest /\ MultibandAtRest /\ ProcessorAtRest
    /\ inp' = [inp EXCEPT ![c] = input]
    /\ snap' = IF \A d \in Callers : pc[d] = "idle" THEN fx ELSE snap
    /\ IF input = <<>>
       THEN /\ res' = [res EXCEPT ![c] = Err("EmptyBuffer")]
            /\ pc' = [pc EXCEPT ![c] = "done"]
            /\ UNCHANGED <<buf, idx, log, directVars>>
       ELSE /\ buf' = [buf EXCEPT ![c] = ApplyNoiseReduction(engine, input).val]
            /\ log' = [log EXCEPT ![c] = <<<<"noise_gate", 0>>>>]
            /\ idx' = [idx EXCEPT ![c] = 1]
            /\ pc' = [pc EXCEPT ![c] = "effects"]
            /\ UNCHANGED res
    /\ UNCHANGED <<engine, ctor, fx, holder, unit, mbVars, procVars, directVars>>

\* apply_effects, one iteration: effect.lock()
LockEffect(c) ==
    /\ pc[c] = "effects"
    /\ idx[c] <= Len(engine.effects)
    /\ holder[engine.effects[idx[c]]] = 0
    /\ holder' = [holder EXCEPT ![engine.effects[idx[c]]] = c]
    /\ pc' = [pc EXCEPT ![c] = "locked"]
    /\ UNCHANGED <<engine, ctor, fx, buf, idx, inp, res, log, snap,
                 unit, mbVars, procVars, directVars>>

\* A faulty iteration: the effect is given the buffer the chain began with.
RunEffectOnInput(c) ==
    /\ pc[c] = "locked"
    /\ LET e == engine.effects[idx[c]]
           r == DelayProcessBuffer(fx[e], ApplyNoiseReduction(engine, inp[c]).val)
       IN  /\ fx' = [fx EXCEPT ![e] = r.state]
           /\ buf' = [buf EXCEPT ![c] = r.out]
           /\ log' = [log EXCEPT ![c] = Append(@, <<"effect", e>>)]
           /\ holder' = [holder EXCEPT ![e] = 0]
    /\ idx' = [idx EXCEPT ![c] = @ + 1]
    /\ pc' = [pc EXCEPT ![c] = "effects"]
    /\ UNCHANGED <<engine, ctor, inp, res, snap, unit, mbVars, procVars, directVars>>

\* A faulty iteration: the guard of the effect is kept after process_buffer.
RunEffectKeepsLock(c) ==
    /\ pc[c] = "locked"
    /\ LET e == engine.effects[idx[c]]
           r == DelayProcessBuffer(fx[e], buf[c])
       IN  /\ fx' = [fx EXCEPT ![e] = r.state]
           /\ buf' = [buf EXCEPT ![c] = r.out]
           /\ log' = [log EXCEPT ![c] = Append(@, <<"effect", e>>)]
    /\ idx' = [idx EXCEPT ![c] = @ + 1]
    /\ pc' = [pc EXCEPT ![c] = "effects"]
    /\ UNCHANGED <<engine, ctor, inp, res, snap, holder, unit, mbVars,
                 procVars, directVars>>

\* apply_effects, one iteration: process_buffer under the lock, then the
\* guard is dropped.
RunEffect(c) ==
    /\ pc[c] = "locked"
    /\ LET e == engine.effects[idx[c]]
           r == DelayProcessBuffer(fx[e], buf[c])
       IN  /\ fx' = [fx EXCEPT ![e] = r.state]
           /\ buf' = [buf EXCEPT ![c] = r.out]
           /\ log' = [log EXCEPT ![c] = Append(@, <<"effect", e>>)]
           /\ holder' = [holder EXCEPT ![e] = 0]
    /\ idx' = [idx EXCEPT ![c] = @ + 1]
    /\ pc' = [pc EXCEPT ![c] = "effects"]
    /\ UNCHANGED <<engine, ctor, inp, res, snap, unit, mbVars, procVars, directVars>>

\* AudioEngine::process after the effect chain: soft limiter, normalisation
\* and the return.
ProcessEnd(c) ==
    /\ pc[c] = "effects"
    /\ idx[c] > Len(engine.effects)
    /\ LET limited == ApplySoftLimiter(engine, buf[c])
           normalized == NormalizeAudio(engine, limited)
       IN  /\ buf' = [buf EXCEPT ![c] = normalized.val]
           /\ res' = [res EXCEPT ![c] = normalized]
    /\ log' = [log EXCEPT ![c] = @ \o <<<<"soft_limiter", 0>>, <<"normalize", 0>>>>]
    /\ pc' = [pc EXCEPT ![c] = "done"]
    /\ UNCHANGED <<engine, ctor, fx, idx, inp, snap, holder, unit,
                 mbVars, procVars, directVars>>

\* The callers take their results: a new round of calls can begin.
Return ==
    /\ \A c \in Callers : pc[c] \in {"idle", "done"}
    /\ \E c \in Callers : pc[c] = "done"
    /\ pc' = [c \in Callers |-> "idle"]
    /\ buf' = IdleCall
    /\ inp' = IdleCall
    /\ log' = IdleCall
    /\ res' = [c \in Callers |-> NoResult]
    /\ idx' = [c \in Callers |-> 0]
    /\ UNCHANGED <<engine, ctor, fx, snap, holder, unit, mbVars, procVars, directVars>>

-----------------------------------------------------------------------------
(* The filters called directly *)

CallCompressRms(input, params, sample_rate) ==
    /\ StagesAtRest /\ EngineAtRest /\ MultibandAtRest /\ ProcessorAtRest
    /\ unit' = [op |-> "compress_rms", arg |-> <<input, params, sample_rate>>,
                result |-> Ok(CompressRms(input, params[1], params[2],
                                          params[3], params[4], sample_rate))]
    /\ UNCHANGED <<engine, ctor, fx, callVars, mbVars, procVars, directVars>>

CallReduceNoiseWiener(signal, noise_profile, fft_size, hop_size, smoothing) ==
    /\ StagesAtRest /\ EngineAtRest /\ MultibandAtRest /\ ProcessorAtRest
    /\ unit' = [op |-> "reduce_noise_wiener",
                arg |-> <<signal, noise_profile, fft_size, hop_size, smoothing>>,
                result |-> Ok(ReduceNoiseWiener(signal, noise_profile, fft_size,
                                                hop_size, smoothing))]
    /\ UNCHANGED <<engine, ctor, fx, callVars, mbVars, procVars, directVars>>

CallParametricEq(input, gains) ==
    /\ StagesAtRest /\ EngineAtRest /\ MultibandAtRest /\ ProcessorAtRest
    /\ unit' = [op |-> "parametric_eq", arg |-> <<input, gains>>,
                result |-> Ok(ParametricEq(input, SampleRate, gains[1],
                                           gains[2], gains[3]))]
    /\ UNCHANGED <<engine, ctor, fx, callVars, mbVars, procVars, directVars>>

-----------------------------------------------------------------------------
(* The MultibandCompressor's operations *)

\* MultibandCompressor::new: a panic leaves the caller without an instance.
MBNew(bands) ==
    /\ MultibandAtRest /\ EngineAtRest /\ StagesAtRest /\ ProcessorAtRest
    /\ LET r == MultibandNew(bands, SampleRate)
       IN  /\ mbCall' = [op |-> "new", arg |-> bands, result |-> r]
           /\ mb' = IF r.ok THEN r.val ELSE mb
    /\ UNCHANGED <<engineVars, mbTrace, procVars, directVars>>

RECURSIVE StreamLen(_)
StreamLen(trace) ==
    IF trace = <<>> THEN 0
    ELSE Len(trace[Len(trace)].input)
         + StreamLen(SubSeq(trace, 1, Len(trace) - 1))

\* MultibandCompressor::process, on one instance at most twice in a row.
MBProcess(input) ==
    /\ mb # NoMB
    /\ Len(mbTrace) < 2
    /\ StreamLen(mbTrace) + Len(input) <= MaxStream
    /\ LET r == MultibandProcess(mb, input)
       IN  /\ mb' = r.mb
           /\ mbTrace' = Append(mbTrace, [input |-> input, out |-> r.out,
                                          starts |-> BandStarts(mb),
                                          ends |-> r.ends])
    /\ UNCHANGED <<engineVars, mbCall, procVars, directVars>>

-----------------------------------------------------------------------------
(* The ClearCastProcessor's operations *)

ProcNew ==
    /\ ProcessorAtRest /\ EngineAtRest /\ StagesAtRest /\ MultibandAtRest
    /\ proc' = ProcessorNew(SampleRate)
    /\ UNCHANGED <<engineVars, mbVars, procCall, directVars>>

\* The processor is configured before it is given audio.
Configurable == proc # NoProcessor /\ procCall = NoProcCall

ProcConfigureNoiseReduction(cfg) ==
    /\ Configurable
    /\ proc' = ConfigureNoiseReduction(proc, cfg[1], cfg[2], cfg[3], cfg[4])
    /\ UNCHANGED <<engineVars, mbVars, procCall, directVars>>

ProcConfigureEq(gains) ==
    /\ Configurable
    /\ proc' = ConfigureEq(proc, gains[1], gains[2], gains[3])
    /\ UNCHANGED <<engineVars, mbVars, procCall, directVars>>

ProcConfigureCompressor(params) ==
    /\ Configurable
    /\ proc' = ConfigureCompressor(proc, params[1], params[2], params[3],
                                   params[4])
    /\ UNCHANGED <<engineVars, mbVars, procCall, directVars>>

ProcSetTargetRms(target_rms) ==
    /\ Configurable
    /\ proc' = SetTargetRms(proc, target_rms)
    /\ UNCHANGED <<engineVars, mbVars, procCall, directVars>>

ProcSetLimiterThreshold(threshold) ==
    /\ Configurable
    /\ proc' = SetLimiterThreshold(proc, threshold)
    /\ UNCHANGED <<engineVars, mbVars, procCall, directVars>>

\* process_audio leaves the processor as it found it: one call for each
\* configuration shows what every later call returns.
ProcProcessAudio(input) ==
    /\ Configurable
    /\ LET r == ProcessAudio(proc, input)
       IN  procCall' = [called |-> TRUE, arg |-> input, out |-> r.out,
                        stages |-> r.stages]
    /\ UNCHANGED <<engineVars, mbVars, proc, directVars>>

-----------------------------------------------------------------------------
(* A Delay and the normalisers driven directly *)

NoNorm == [fn |-> "none", target |-> Zero, input |-> <<>>, passes |-> <<>>]

DirectAtRest == dl = NoDelay /\ norm = NoNorm
OthersAtRest ==
    EngineAtRest /\ StagesAtRest /\ MultibandAtRest /\ ProcessorAtRest

DLNew(delay_ms, feedback, wet, dry) ==
    /\ DirectAtRest /\ OthersAtRest
    /\ dl' = DelayNew(delay_ms, feedback, wet, dry, DelayRate)
    /\ UNCHANGED <<engineVars, mbVars, procVars, dlTrace, norm>>

\* The calls of one kind made on dl so far.
CallsOf(trace, op) == SelectSeq(trace, LAMBDA call : call.op = op)

\* Delay::process_buffer, on one instance at most twice.
DLProcessBuffer(buffer) ==
    /\ dl # NoDelay
    /\ Len(CallsOf(dlTrace, "process_buffer")) < 2
    /\ LET r == DelayProcessBuffer(dl, buffer)
       IN  /\ dl' = r.state
           /\ dlTrace' = Append(dlTrace, [op |-> "process_buffer",
                                          input |-> buffer, out |-> r.out])
    /\ UNCHANGED <<engineVars, mbVars, procVars, norm>>

\* Delay::reset, once, before, between or after the process_buffer calls.
DLReset ==
    /\ dl # NoDelay
    /\ CallsOf(dlTrace, "reset") = <<>>
    /\ dl' = DelayReset(dl)
    /\ dlTrace' = Append(dlTrace, [op |-> "reset", input |-> <<>>,
                                   out |-> <<>>])
    /\ UNCHANGED <<engineVars, mbVars, procVars, norm>>

\* AudioEngine::normalize_audio mutates the buffer in place: on Err the
\* buffer is as it was.
PeakNormalized(r, audio) == IF r.ok THEN r.val ELSE audio

\* The buffer after one more call of the normaliser.
NormalizerPass(fn, target, buffer) ==
    CASE fn = "AudioEngine::normalize_audio" ->
            PeakNormalized(NormalizeAudio(engine, buffer), buffer)
      [] fn = "effects::normalize_rms" -> EffectsNormalizeRms(buffer, target)
      [] fn = "utils::normalize_audio" -> UtilsNormalizeAudio(buffer)

NormalizeFirst(fn, target, buffer) ==
    /\ DirectAtRest /\ OthersAtRest
    /\ norm' = [fn |-> fn, target |-> target, input |-> buffer,
                passes |-> <<NormalizerPass(fn, target, buffer)>>]
    /\ UNCHANGED <<engineVars, mbVars, procVars, dl, dlTrace>>

NormalizePeak(audio) ==
    NormalizeFirst("AudioEngine::normalize_audio", engine.target_peak, audio)
NormalizeRmsTo(buffer, target_dbfs) ==
    NormalizeFirst("effects::normalize_rms", target_dbfs, buffer)
NormalizeUtils(samples) ==
    NormalizeFirst("utils::normalize_audio", One, samples)

\* The same normaliser, with the same target, on the buffer it left.
NormalizeAgain ==
    /\ norm # NoNorm
    /\ Len(norm.passes) < MaxPasses
    /\ norm' = [norm EXCEPT !.passes =
                   Append(@, NormalizerPass(norm.fn, norm.target,
                                            norm.passes[Len(norm.passes)]))]
    /\ UNCHANGED <<engineVars, mbVars, procVars, dl, dlTrace>>

-----------------------------------------------------------------------------
(* The limiters driven directly *)

\* A SoftLimiter is made, switched on or off, and given one buffer.
CallSoftLimiter(threshold, knee, active, buffer) ==
    /\ StagesAtRest /\ EngineAtRest /\ MultibandAtRest /\ ProcessorAtRest
    /\ LET l == SoftLimiterSetActive(SoftLimiterNew(threshold, knee), active)
       IN  unit' = [op |-> "SoftLimiter::process_buffer",
                    arg |-> <<buffer, l>>,
                    result |-> Ok(SoftLimiterProcessBuffer(l, buffer))]
    /\ UNCHANGED <<engine, ctor, fx, callVars, mbVars, procVars, directVars>>

\* The soft limiter of a ClearCastProcessor with the given threshold, as
\* process_audio runs it on the buffer of its third stage.
CallProcLimiter(threshold, samples) ==
    /\ StagesAtRest /\ EngineAtRest /\ MultibandAtRest /\ ProcessorAtRest
    /\ LET p == SetLimiterThreshold(ProcessorNew(SampleRate), threshold)
       IN  unit' = [op |-> "ClearCastProcessor::apply_soft_limiter",
                    arg |-> <<samples, p>>,
                    result |-> Ok(ProcApplySoftLimiter(p, samples))]
    /\ UNCHANGED <<engine, ctor, fx, callVars, mbVars, procVars, directVars>>

-----------------------------------------------------------------------------
(* Specifications *)

RestInit ==
    /\ mb = NoMB
    /\ mbCall = NoUnit
    /\ mbTrace = <<>>
    /\ proc = NoProcessor
    /\ procCall = NoProcCall
    /\ dl = NoDelay
    /\ dlTrace = <<>>
    /\ norm = NoNorm

CallInit ==
    /\ fx = EffectPool
    /\ pc = [c \in Callers |-> "idle"]
    /\ buf = IdleCall
    /\ idx = [c \in Callers |-> 0]
    /\ inp = IdleCall
    /\ res = [c \in Callers |-> NoResult]
    /\ log = IdleCall
    /\ snap = EffectPool
    /\ holder = [e \in EffectIds |-> 0]
    /\ unit = NoUnit

\* One caller, an engine built by any constructor, every stage called
\* directly or through process.
Init ==
    /\ engine = NoEngine
    /\ ctor = NoCtor
    /\ CallInit
    /\ RestInit

Next ==
    \/ New
    \/ \E nrt \in NrtValues, tp \in PeakValues : WithSettings(nrt, tp)
    \/ \E nrt \in NrtValues, tp \in PeakValues, l \in LimiterConfigs :
          WithLimiter(nrt, tp, l)
    \/ \E b \in Buffers : CallApplyNoiseReduction(b)
    \/ \E b \in Buffers : CallApplySoftLimiter(b)
    \/ \E b \in Buffers : CallNormalizeAudio(b)
    \/ \E b \in Buffers : ProcessBegin(1, b)
    \/ ProcessEnd(1)
    \/ Return
    \/ Drop

Spec == Init /\ [][Next]_vars

\* Two callers sharing one engine with a hard-knee limiter: effects are
\* registered, then each caller makes one process call.
ChainEngine ==
    EngineWithLimiter(<<1, 10>>, One,
                      LimiterConfig(One, Zero, Zero, <<2, 1>>)).val

InitChain ==
    /\ engine = ChainEngine
    /\ ctor = NoCtor
    /\ CallInit
    /\ RestInit

NextChain ==
    \/ \E e \in EffectIds : AddEffect(e)
    \/ ClearEffects
    \/ \E c \in Callers, b \in ChainBuffers : ProcessBegin(c, b)
    \/ \E c \in Callers : LockEffect(c)
    \/ \E c \in Callers : RunEffect(c)
    \/ \E c \in Callers : ProcessEnd(c)

SpecChain == InitChain /\ [][NextChain]_vars

\* The same callers under a scheduler that lets every thread run.  A caller
\* in process takes one step at a time, and each step moves its position:
\* it takes a free lock (LockEffect), runs the effect it has locked
\* (RunEffect), or leaves the chain and finishes (ProcessEnd).  The step a
\* caller can take for good is taken.
Locks(c) ==
    /\ pc[c] = "effects"
    /\ idx[c] <= Len(engine.effects)
    /\ holder[engine.effects[idx[c]]] = 0
    /\ pc' = [pc EXCEPT ![c] = "locked"]
Runs(c) == pc[c] = "locked" /\ pc' = [pc EXCEPT ![c] = "effects"]
Ends(c) ==
    /\ pc[c] = "effects"
    /\ idx[c] > Len(engine.effects)
    /\ pc' = [pc EXCEPT ![c] = "done"]
FairChain ==
    \A c \in Callers : WF_pc(Locks(c)) /\ WF_pc(Runs(c)) /\ WF_pc(Ends(c))

SpecChainFair == InitChain /\ [][NextChain]_vars /\ FairChain

\* One caller and the objects of the crate one at a time: the filters
\* called directly, a MultibandCompressor, a ClearCastProcessor, and an
\* AudioEngine with an effect chain.
InitStages == InitChain

NextStages ==
    \/ \E b \in StageBuffers, params \in CompressorParams :
          CallCompressRms(b, params, SampleRate)
    \/ \E b \in StageBuffers, np \in NoiseProfiles, fft_size \in FftSizes,
          hop_size \in HopSizes, smoothing \in Smoothings :
          CallReduceNoiseWiener(b, np, fft_size, hop_size, smoothing)
    \/ \E b \in StageBuffers, gains \in EqGains : CallParametricEq(b, gains)
    \/ Drop
    \/ \E bands \in BandLists : MBNew(bands)
    \/ \E b \in StageBuffers : MBProcess(b)
    \/ ProcNew
    \/ \E cfg \in NoiseConfigs : ProcConfigureNoiseReduction(cfg)
    \/ \E gains \in EqGains : ProcConfigureEq(gains)
    \/ \E params \in CompressorParams : ProcConfigureCompressor(params)
    \/ \E t \in RmsTargets : ProcSetTargetRms(t)
    \/ \E t \in LimiterThresholds : ProcSetLimiterThreshold(t)
    \/ \E b \in StageBuffers : ProcProcessAudio(b)
    \/ \E e \in EffectIds : AddEffect(e)
    \/ \E b \in ChainBuffers : ProcessBegin(1, b)
    \/ LockEffect(1)
    \/ RunEffect(1)
    \/ ProcessEnd(1)

SpecStages == InitStages /\ [][NextStages]_vars

\* The effects and normalisers of the crate driven directly by their
\* owner, one object at a time: a Delay over consecutive buffers, the three
\* normalisers applied once and again, the noise gate on samples near its
\* threshold, compress_rms on samples that are not finite, and a
\* MultibandCompressor whose bands do not compress.
InitDirect ==
    /\ engine \in DirectEngines
    /\ ctor = NoCtor
    /\ CallInit
    /\ RestInit

NextDirect ==
    \/ \E delay_ms \in DelayTimes, feedback \in DelayFeedbacks,
          wet \in DelayWets, dry \in DelayDries :
          DLNew(delay_ms, feedback, wet, dry)
    \/ \E b \in DelayBuffers : DLProcessBuffer(b)
    \/ DLReset
    \/ \E b \in GateBuffers :
          DirectAtRest /\ MultibandAtRest /\ CallApplyNoiseReduction(b)
    \/ \E b \in NormBuffers : NormalizePeak(b)
    \/ \E b \in NormBuffers, t \in NormTargets : NormalizeRmsTo(b, t)
    \/ \E b \in NormBuffers : NormalizeUtils(b)
    \/ NormalizeAgain
    \/ \E b \in ExtremeBuffers, params \in CompressorParams :
          DirectAtRest /\ CallCompressRms(b, params, SampleRate)
    \/ Drop
    \/ \E bands \in UnityBandLists : DirectAtRest /\ MBNew(bands)
    \/ \E b \in StageBuffers : MBProcess(b)

SpecDirect == InitDirect /\ [][NextDirect]_vars

-----------------------------------------------------------------------------
(* The thresholded stages, each given samples on its threshold *)

InitThreshold ==
    /\ engine \in ThresholdEngines
    /\ ctor = NoCtor
    /\ CallInit
    /\ RestInit

NextThreshold ==
    \/ \E b \in ThresholdBuffers : CallApplyNoiseReduction(b)
    \/ \E b \in ThresholdBuffers : CallApplySoftLimiter(b)
    \/ \E p \in SoftLimiterParams, active \in BOOLEAN, b \in ThresholdBuffers :
          CallSoftLimiter(p[1], p[2], active, b)
    \/ \E t \in {<<1, 2>>, <<9, 10>>}, b \in ThresholdBuffers :
          CallProcLimiter(t, b)
    \/ \E b \in ThresholdBuffers, params \in ThresholdCompressorParams,
          sample_rate \in ThresholdSampleRates :
          CallCompressRms(b, params, sample_rate)
    \/ Drop

SpecThreshold == InitThreshold /\ [][NextThreshold]_vars

\* reduce_noise_wiener on signals longer than its shortest transform, with
\* hops shorter and longer than the transform.
MaxSignalLen == 3    \* longest signal handed to reduce_noise_wiener alone
WindowSignals == SeqsUpTo({Zero, One}, MaxSignalLen)

InitWindows == InitChain

NextWindows ==
    \/ \E b \in WindowSignals, np \in NoiseProfiles, fft_size \in FftSizes,
          hop_size \in HopSizes, smoothing \in Smoothings :
          CallReduceNoiseWiener(b, np, fft_size, hop_size, smoothing)
    \/ Drop

SpecWindows == InitWindows /\ [][NextWindows]_vars

-----------------------------------------------------------------------------
(* AudioEngine::process run by one caller alone *)

\* apply_effects on a chain nobody else touches: the effects from index i on.
RECURSIVE ApplyEffectsFrom(_, _, _, _)
ApplyEffectsFrom(chain, i, states, buffer) ==
    IF i > Len(chain) THEN [fx |-> states, out |-> buffer]
    ELSE LET r == DelayProcessBuffer(states[chain[i]], buffer)
         IN  ApplyEffectsFrom(chain, i + 1,
                              [states EXCEPT ![chain[i]] = r.state], r.out)

ProcessAlone(e, states, input) ==
    IF input = <<>> THEN [fx |-> states, res |-> Err("EmptyBuffer")]
    ELSE LET gated == ApplyNoiseReduction(e, input).val
             chained == ApplyEffectsFrom(e.effects, 1, states, gated)
             limited == ApplySoftLimiter(e, chained.out)
         IN  [fx |-> chained.fx, res |-> NormalizeAudio(e, limited)]

-----------------------------------------------------------------------------
(* Claims *)

Tolerance == <<1, 10000>>
Within(x, y, tol) == FLe(FAbs(FSub(x, y)), tol)

\* The position of a stage in the order of process_audio.
StageRank(stage) ==
    CASE stage = "wiener" -> 1
      [] stage = "eq" -> 2
      [] stage = "compress" -> 3
      [] stage = "limit" -> 4
      [] stage = "normalize" -> 5

\* The log of a process call on an engine with the given effect chain.
EngineOrder(effects) ==
    <<<<"noise_gate", 0>>>>
    \o [i \in 1..Len(effects) |-> <<"effect", effects[i]>>]
    \o <<<<"soft_limiter", 0>>, <<"normalize", 0>>>>

\* C1: process_audio runs its stages in the order Wiener, EQ, compression,
\* soft limiter, RMS normalisation, the last three on every non-empty
\* buffer and the first two unless bypassed; process runs the noise gate,
\* the effects in the order of the chain, the soft limiter and the peak
\* normalisation.
C1_StageOrderFixed ==
    /\ (procCall.called /\ procCall.arg # <<>>) =>
          /\ \A i \in 1..(Len(procCall.stages) - 1) :
                StageRank(procCall.stages[i]) < StageRank(procCall.stages[i + 1])
          /\ Len(procCall.stages) >= 3
          /\ SubSeq(procCall.stages, Len(procCall.stages) - 2,
                    Len(procCall.stages))
                = <<"compress", "limit", "normalize">>
    /\ \A c \in Callers :
          (pc[c] = "done" /\ res[c].ok) => log[c] = EngineOrder(engine.effects)

\* Witness of C1: process_audio ran with the Wiener filter bypassed and the
\* equaliser not.
C1_Witness ==
    /\ procCall.called
    /\ procCall.stages = <<"eq", "compress", "limit", "normalize">>

\* C2: after apply_soft_limiter every sample of the buffer satisfies
\* |sample| <= target_peak, for every engine a constructor returned and
\* every input buffer.
C2_LimiterBoundsEverySample ==
    unit.op = "apply_soft_limiter" =>
        \A i \in 1..Len(unit.result.val) :
            FLe(FAbs(unit.result.val[i]), engine.target_peak)

NonSilent(buffer) == \E i \in 1..Len(buffer) : buffer[i] # Zero

C5_EnvelopePersistsAcrossCalls ==
    Len(mbTrace) = 2 =>
        /\ mbTrace[2].starts = mbTrace[1].ends
        /\ mbTrace[1].out \o mbTrace[2].out
              = MultibandProcess(mbCall.result.val,
                                 mbTrace[1].input \o mbTrace[2].input).out

\* C6: two process calls on one engine whose chain holds two or more
\* effects return the buffers, and leave the effect states, of one of the
\* two serial orders of the calls.
C6_ConcurrentCallsSerializable ==
    (pc[1] = "done" /\ pc[2] = "done" /\ Len(engine.effects) >= 2) =>
        LET a1 == ProcessAlone(engine, snap, inp[1])
            a2 == ProcessAlone(engine, a1.fx, inp[2])
            b2 == ProcessAlone(engine, snap, inp[2])
            b1 == ProcessAlone(engine, b2.fx, inp[1])
        IN  \/ res[1] = a1.res /\ res[2] = a2.res /\ fx = a2.fx
            \/ res[2] = b2.res /\ res[1] = b1.res /\ fx = b1.fx

\* C7: process, apply_noise_reduction and normalize_audio return
\* Err(EmptyBuffer) for an empty buffer and Ok for every other buffer.
C7_EmptyBufferRejected ==
    /\ unit.op \in {"apply_noise_reduction", "normalize_audio"} =>
          IF unit.arg = <<>> THEN unit.result = Err("EmptyBuffer")
          ELSE unit.result.ok
    /\ \A c \in Callers :
          pc[c] = "done" =>
              IF inp[c] = <<>> THEN res[c] = Err("EmptyBuffer") ELSE res[c].ok

\* Witness of C7: apply_noise_reduction has refused an empty buffer.
C7_Witness ==
    /\ unit.op = "apply_noise_reduction"
    /\ unit.arg = <<>>
    /\ unit.result = Err("EmptyBuffer")

\* The operations that take a buffer and return one, called on the empty
\* buffer: each returned the empty buffer, and process_audio ran no stage.
EmptyInEmptyOut ==
    /\ (unit.op \in {"compress_rms", "reduce_noise_wiener", "parametric_eq"}
        /\ unit.arg[1] = <<>>) =>
          (unit.result.ok /\ unit.result.val = <<>>)
    /\ \A k \in 1..Len(mbTrace) :
          mbTrace[k].input = <<>> => mbTrace[k].out = <<>>
    /\ (procCall.called /\ procCall.arg = <<>>) =>
          (procCall.out = <<>> /\ procCall.stages = <<>>)

OutOfUnitRange(x) == FLt(x, Zero) \/ FGt(x, One)
InUnitRange(x) == FGe(x, Zero) /\ FLe(x, One)

\* C9: with_limiter and with_settings fail, and no engine exists, whenever
\* a threshold, the target peak or the knee width is outside [0, 1] or the
\* ratio is below 1; with all of them in range the engine holds the values
\* supplied and no effect.
C9_ConstructorValidates ==
    ctor.fn \in {"with_limiter", "with_settings"} =>
        LET nrt == ctor.args[1]
            tp == ctor.args[2]
            l == IF ctor.fn = "with_limiter" THEN ctor.args[3]
                 ELSE LimiterDefault
        IN  /\ ( \/ OutOfUnitRange(nrt) \/ OutOfUnitRange(tp)
                 \/ OutOfUnitRange(l.threshold) \/ OutOfUnitRange(l.knee_width)
                 \/ FLt(l.ratio, One) )
               => (~ctor.result.ok /\ engine = NoEngine)
            /\ ( /\ InUnitRange(nrt) /\ InUnitRange(tp)
                 /\ InUnitRange(l.threshold) /\ InUnitRange(l.knee_width)
                 /\ FGe(l.ratio, One) )
               => /\ ctor.result.ok
                  /\ engine = ctor.result.val
                  /\ engine.noise_reduction_threshold = nrt
                  /\ engine.target_peak = tp
                  /\ engine.limiter = l
                  /\ engine.effects = <<>>

\* Witness of C9: with_limiter refused a configuration whose only fault is
\* a ratio below 1.
C9_Witness ==
    /\ ctor.fn = "with_limiter"
    /\ ~ctor.result.ok
    /\ InUnitRange(ctor.args[1]) /\ InUnitRange(ctor.args[2])
    /\ InUnitRange(ctor.args[3].threshold)
    /\ InUnitRange(ctor.args[3].knee_width)
    /\ FLt(ctor.args[3].ratio, One)

\* Two of the bands overlap: one begins inside the other.
BandsOverlap(bands) ==
    \E i, j \in 1..Len(bands) :
        /\ i # j
        /\ FLe(bands[i].low_freq, bands[j].low_freq)
        /\ FLt(bands[j].low_freq, bands[i].high_freq)

\* A band with low_freq >= high_freq.
BandInverted(bands) ==
    \E i \in 1..Len(bands) : FGe(bands[i].low_freq, bands[i].high_freq)

\* C10: MultibandCompressor::new panics, and no instance exists, whenever
\* two bands overlap or a band has low_freq >= high_freq.
C10_InvalidBandsPanic ==
    (mbCall.op = "new" /\ (BandsOverlap(mbCall.arg) \/ BandInverted(mbCall.arg)))
        => (mbCall.result = Err("panic") /\ mb = NoMB)

\* Witness of C10: new panicked on bands whose only fault is an overlap.
C10_Witness ==
    /\ mbCall.op = "new"
    /\ mbCall.result = Err("panic")
    /\ BandsOverlap(mbCall.arg)
    /\ ~BandInverted(mbCall.arg)


\* Bands that are valid and contiguous once put in some order: finite edges,
\* low_freq < high_freq, and each band starting where another one ends.
ValidInSomeOrder(bands) ==
    /\ \A i \in 1..Len(bands) :
          /\ IsFinite(bands[i].low_freq) /\ IsFinite(bands[i].high_freq)
          /\ FLt(bands[i].low_freq, bands[i].high_freq)
    /\ \E p \in Permutations(1..Len(bands)) :
          \A i \in 2..Len(bands) :
              bands[p[i]].low_freq = bands[p[i - 1]].high_freq

Ascending(bands) ==
    \A i \in 2..Len(bands) : FLe(bands[i - 1].low_freq, bands[i].low_freq)

SameBands(a, b) ==
    /\ Len(a) = Len(b)
    /\ \E p \in Permutations(1..Len(a)) : \A i \in 1..Len(a) : a[i] = b[p[i]]

\* C11 as stated: MultibandCompressor::new panics when valid, contiguous
\* bands are supplied out of ascending order.
C11_UnsortedBandsRejected ==
    (mbCall.op = "new" /\ ValidInSomeOrder(mbCall.arg)
        /\ ~Ascending(mbCall.arg)) => ~mbCall.result.ok

\* C11, amended: MultibandCompressor::new sorts the bands by low_freq before
\* it checks them, so valid, contiguous bands supplied in any order give an
\* instance, and the instance holds the same bands in ascending order.
C11_UnsortedBandsSorted ==
    (mbCall.op = "new" /\ ValidInSomeOrder(mbCall.arg)) =>
        /\ mbCall.result.ok
        /\ mb # NoMB
        /\ Ascending(mb.bands)
        /\ SameBands(mb.bands, mbCall.arg)

\* Witness of C11: new was given a partition out of order and returned an
\* instance.
C11_Witness ==
    /\ mbCall.op = "new"
    /\ ValidInSomeOrder(mbCall.arg)
    /\ ~Ascending(mbCall.arg)
    /\ mbCall.result.ok
    /\ mb.bands # mbCall.arg

\* The half of the sample rate, 22050 Hz.
Nyquist == FDiv(SampleRate, <<2, 1>>)

\* Sorted bands that form a full partition of the spectrum: the first starts
\* at 0, each next one starts where the one before ends, the last reaches
\* the Nyquist frequency.
CoversSpectrum(sorted) ==
    /\ sorted # <<>>
    /\ sorted[1].low_freq = Zero
    /\ \A i \in 2..Len(sorted) : sorted[i].low_freq = sorted[i - 1].high_freq
    /\ FGe(sorted[Len(sorted)].high_freq, Nyquist)

\* C12 as stated: MultibandCompressor::new panics when the bands leave a
\* gap, do not start at 0, do not reach the Nyquist frequency, or when the
\* list is empty.
C12_PartialCoverageRejected ==
    (mbCall.op = "new" /\ ~SortPanics(mbCall.arg)
        /\ ~CoversSpectrum(SortBands(mbCall.arg))) => ~mbCall.result.ok

InFullScale(x) == FLe(FNeg(One), x) /\ FLe(x, One)

\* C13: every sample process_audio returns lies in [-1.0, 1.0], whatever
\* the setters were given and whatever the input.
C13_OutputInFullScale ==
    procCall.called =>
        \A i \in 1..Len(procCall.out) : InFullScale(procCall.out[i])

\* The samples a Delay was given, and the samples it returned, over all its
\* process_buffer calls in order.
RECURSIVE InputsOf(_)
InputsOf(trace) ==
    IF trace = <<>> THEN <<>>
    ELSE InputsOf(SubSeq(trace, 1, Len(trace) - 1)) \o trace[Len(trace)].input

RECURSIVE OutputsOf(_)
OutputsOf(trace) ==
    IF trace = <<>> THEN <<>>
    ELSE OutputsOf(SubSeq(trace, 1, Len(trace) - 1)) \o trace[Len(trace)].out

\* dry * x[n] + wet * x[n - D], with x[k] = 0 before the first sample.
Echo(d, x, n) ==
    FAdd(FMul(d.dry, x[n]),
         FMul(d.wet, IF n > d.delay_samples THEN x[n - d.delay_samples]
                     ELSE Zero))

\* C14: a Delay with feedback 0 and a delay of D >= 1 samples returns
\* dry * x[n] + wet * x[n - D] at every step n of its stream, also when the
\* stream is given in two process_buffer calls.
C14_EchoAfterDelay ==
    (dl # NoDelay /\ dl.feedback = Zero /\ dl.delay_samples >= 1
       /\ CallsOf(dlTrace, "reset") = <<>>) =>
        \A n \in 1..Len(OutputsOf(dlTrace)) :
            OutputsOf(dlTrace)[n] = Echo(dl, InputsOf(dlTrace), n)

\* T = (maximum absolute sample of the buffer) * noise_reduction_threshold
GateThreshold(e, audio) == FMul(Peak(audio), e.noise_reduction_threshold)

LowerKnee(l) == FMul(l.threshold, FSub(One, l.knee_width))
UpperKnee(l) == FMul(l.threshold, FAdd(One, l.knee_width))

\* C16: for every engine a constructor returned with ratio >= 1 and a knee
\* of positive width, the knee formula of apply_soft_limiter agrees with the
\* pass-through branch at |x| = threshold * (1 - knee_width) and with the
\* branch above the knee at |x| = threshold * (1 + knee_width).
C16_KneeContinuous ==
    (/\ engine # NoEngine
     /\ FGe(engine.limiter.ratio, One)
     /\ FGt(LowerKnee(engine.limiter), Zero)
     /\ FGt(engine.limiter.knee_width, Zero)) =>
        /\ KneeShape(LowerKnee(engine.limiter), LowerKnee(engine.limiter),
                     engine.limiter.ratio, LowerKnee(engine.limiter),
                     UpperKnee(engine.limiter))
              = LowerKnee(engine.limiter)
        /\ KneeShape(UpperKnee(engine.limiter), UpperKnee(engine.limiter),
                     engine.limiter.ratio, LowerKnee(engine.limiter),
                     UpperKnee(engine.limiter))
              = AboveKneeShape(UpperKnee(engine.limiter),
                               UpperKnee(engine.limiter),
                               engine.limiter.threshold, engine.limiter.ratio)

\* C17 as stated: every sample compress_rms returns is finite, for every
\* input and every parameter choice.
C17_OutputAlwaysFinite ==
    unit.op = "compress_rms" =>
        \A i \in 1..Len(unit.result.val) : IsFinite(unit.result.val[i])

\* C17, amended: unless the threshold is negative infinity, every sample
\* compress_rms returns is finite, and it is 0.0 wherever the input sample
\* is NaN or infinite; with a threshold of negative infinity the input is
\* returned as it is.
C17_OutputFiniteUnlessBypassed ==
    unit.op = "compress_rms" =>
        IF unit.arg[2][1] = NegInf THEN unit.result.val = unit.arg[1]
        ELSE /\ Len(unit.result.val) = Len(unit.arg[1])
             /\ \A i \in 1..Len(unit.arg[1]) :
                   /\ IsFinite(unit.result.val[i])
                   /\ ~IsFinite(unit.arg[1][i]) => unit.result.val[i] = Zero

\* Witness of C17: compress_rms ran on a NaN and an infinite sample and
\* returned two zeros.
C17_Witness ==
    /\ unit.op = "compress_rms"
    /\ unit.arg[2][1] # NegInf
    /\ unit.arg[1] = <<NaN, PosInf>>
    /\ unit.result.val = <<Zero, Zero>>

\* C18: reduce_noise_wiener returns its input as it is when the input is
\* empty, the noise profile is empty, fft_size is 0 or hop_size is 0; and
\* process_audio on a processor whose noise reduction was never configured
\* returns what the equaliser, the compressor, the limiter and the RMS
\* normalisation make of the input itself.
Degenerate(arg) == arg[1] = <<>> \/ arg[2] = <<>> \/ arg[3] = 0 \/ arg[4] = 0
NeverConfigured(p) ==
    p # NoProcessor /\ p.noise_profile = ProcessorNew(SampleRate).noise_profile
C18_DegenerateWienerReturnsInput ==
    /\ (unit.op = "reduce_noise_wiener" /\ Degenerate(unit.arg)) =>
          unit.result = Ok(unit.arg[1])
    /\ (procCall.called /\ procCall.arg # <<>> /\ NeverConfigured(proc)) =>
          procCall.out
              = ProcDenoised(proc, [ran |-> TRUE, out |-> procCall.arg]).out
C18_Witness ==
    /\ unit.op = "reduce_noise_wiener"
    /\ unit.arg[1] # <<>> /\ unit.arg[1] # <<Zero>> /\ unit.arg[3] # 0
    /\ unit.arg[4] # 0
    /\ unit.arg[2] = <<>>
    /\ unit.result = Ok(unit.arg[1])

\* C19: a normaliser applied a second time with the same target to the
\* buffer it has already normalised leaves every sample as it is, within
\* 1e-2 (a sample that is NaN or infinite counts as unchanged when it is
\* the same NaN or infinity after the second pass).
Unchanged(a, b) ==
    \/ a = b
    \/ IsFinite(a) /\ IsFinite(b) /\ Within(a, b, <<1, 100>>)
C19_NormalizeIdempotent ==
    Len(norm.passes) = 2 =>
        \A i \in 1..Len(norm.passes[1]) :
            Unchanged(norm.passes[1][i], norm.passes[2][i])

\* C20: a MultibandCompressor whose bands all have ratio 1.0 returns from
\* process a buffer equal to its input, sample by sample, within 1e-2.
AllUnity(m) == \A i \in 1..Len(m.bands) : m.bands[i].ratio = One
C20_UnityRatioReproducesInput ==
    (mb # NoMB /\ AllUnity(mb)) =>
        \A k \in 1..Len(mbTrace) :
            \A n \in 1..Len(mbTrace[k].input) :
                Within(mbTrace[k].out[n], mbTrace[k].input[n], <<1, 100>>)

\* What each thresholded stage does with the samples of its input that lie
\* exactly on its threshold.
AtThresholdPassed(input, out, threshold) ==
    \A i \in 1..Len(input) : FAbs(input[i]) = threshold => out[i] = input[i]
MakeUpGain(e) == Powf10(FDiv(e.limiter.make_up_gain, <<20, 1>>))
LowerThreshold(l) == FMul(l.threshold, FSub(One, l.knee_width))
GatePassesAtThreshold ==
    (unit.op = "apply_noise_reduction" /\ unit.result.ok) =>
        AtThresholdPassed(unit.arg, unit.result.val,
                          GateThreshold(engine, unit.arg))
SoftLimiterPassesAtThreshold ==
    unit.op = "SoftLimiter::process_buffer" =>
        AtThresholdPassed(unit.arg[1], unit.result.val, unit.arg[2].threshold)
ProcLimiterPassesAtThreshold ==
    unit.op = "ClearCastProcessor::apply_soft_limiter" =>
        AtThresholdPassed(unit.arg[1], unit.result.val,
                          unit.arg[2].limiter_threshold)
\* The envelope in dB after the first sample of a compress_rms call.
FirstEnvelopeDb(input, params, sample_rate) ==
    DMul(<<10, 1>>,
         EnvelopeLog10(CompressSample(CompressorStart, input[1], params[1],
                                      DDiv(One, params[2]),
                                      SmoothingCoeff(params[3], sample_rate),
                                      SmoothingCoeff(params[4], sample_rate)
                                     ).envelope))
CompressPassesAtThreshold ==
    (unit.op = "compress_rms" /\ unit.arg[1] # <<>>
       /\ FirstEnvelopeDb(unit.arg[1], unit.arg[2], unit.arg[3]) = unit.arg[2][1]) =>
        unit.result.val[1] = unit.arg[1][1]

RECURSIVE StreamOf(_)
StreamOf(trace) ==
    IF trace = <<>> THEN <<>>
    ELSE StreamOf(SubSeq(trace, 1, Len(trace) - 1)) \o trace[Len(trace)].input
LastThree(stream) ==
    [k \in 1..3 |-> IF k <= Len(stream) THEN stream[Len(stream) - k + 1]
                    ELSE Zero]
BandAlone(m, i, stream) ==
    FilterBandFrom(m.b_coeffs[i], m.a_coeffs[i], stream, 1,
                   <<Zero, Zero, Zero>>, <<Zero, Zero, Zero>>, <<>>)
AsConstructed(m, c) ==
    /\ m.bands = c.bands
    /\ m.sample_rate = c.sample_rate
    /\ m.a_coeffs = c.a_coeffs
    /\ m.b_coeffs = c.b_coeffs
C22_HistoryKeptNothingElseChanged ==
    mb # NoMB =>
        /\ AsConstructed(mb, MultibandNew(mbCall.arg, SampleRate).val)
        /\ \A i \in 1..Len(mb.bands) :
              /\ mb.x_history[i] = LastThree(StreamOf(mbTrace))
              /\ mb.y_history[i]
                     = BandAlone(mb, i, StreamOf(mbTrace)).y_history
C22_Witness ==
    /\ mb # NoMB
    /\ Len(mb.bands) = 2
    /\ Len(mbTrace) = 2
    /\ Len(StreamOf(mbTrace)) = 4
    /\ StreamOf(mbTrace)[1] # Zero
    /\ mb.x_history[2] = SubSeq(LastThree(StreamOf(mbTrace)), 1, 3)
    /\ mb.x_history[2][1] # mb.x_history[2][2]
    /\ mb.y_history[1] # mb.y_history[2]

\* C23: the samples a Delay returns after reset are those a Delay newly
\* made with the same parameters returns for the same samples, whatever it
\* was given before the reset.
AfterReset(trace) ==
    SubSeq(trace, (CHOOSE k \in 1..Len(trace) : trace[k].op = "reset") + 1,
           Len(trace))
FreshDelay(d) == DelayWith(d.delay_samples, d.feedback, d.wet, d.dry)
C23_ResetRestoresFreshBehaviour ==
    (dl # NoDelay /\ CallsOf(dlTrace, "reset") # <<>>) =>
        /\ OutputsOf(AfterReset(dlTrace))
             = DelayProcessBuffer(FreshDelay(dl),
                                  InputsOf(AfterReset(dlTrace))).out
        /\ AfterReset(dlTrace) = <<>> =>
              DelayProcessSample(dl, One).out
                  = DelayProcessSample(FreshDelay(dl), One).out
C23_Witness ==
    /\ dl # NoDelay
    /\ dl.delay_samples = 0
    /\ Len(dlTrace) = 3
    /\ dlTrace[2].op = "reset"
    /\ Len(dlTrace[1].input) = 2
    /\ dlTrace[1].input[2] # Zero
    /\ Len(dlTrace[3].input) = 2
    /\ dlTrace[3].input[1] # Zero
    /\ dlTrace[3].out[2] # FMul(dl.dry, dlTrace[3].input[2])

\* C24: a process call runs the effects of the chain once each, in the
\* order add_effect put them there (an effect added twice runs twice), each
\* on the buffer the one before it left; with an empty chain no effect runs
\* and the buffer is the one the noise gate left.
EffectsRun(l) ==
    [i \in 1..Len(SelectSeq(l, LAMBDA s : s[1] = "effect")) |->
        SelectSeq(l, LAMBDA s : s[1] = "effect")[i][2]]
EffectsDue(c) ==
    IF pc[c] = "done" THEN engine.effects
    ELSE SubSeq(engine.effects, 1, idx[c] - 1)
ChainDone(c) == pc[c] = "effects" /\ idx[c] > Len(engine.effects)
Alone(c) == \A d \in Callers \ {c} : pc[d] = "idle"
C24_EffectsRunOnceInOrder ==
    \A c \in Callers :
        /\ (pc[c] \in {"effects", "locked", "done"} /\ inp[c] # <<>>) =>
              EffectsRun(log[c]) = EffectsDue(c)
        /\ (ChainDone(c) /\ Alone(c)) =>
              /\ buf[c] = ApplyEffectsFrom(engine.effects, 1, snap,
                              ApplyNoiseReduction(engine, inp[c]).val).out
              /\ fx = ApplyEffectsFrom(engine.effects, 1, snap,
                          ApplyNoiseReduction(engine, inp[c]).val).fx
        /\ (ChainDone(c) /\ engine.effects = <<>>) =>
              /\ buf[c] = ApplyNoiseReduction(engine, inp[c]).val
              /\ EffectsRun(log[c]) = <<>>
C24_Witness ==
    \E c \in Callers :
        /\ ChainDone(c) /\ Alone(c)
        /\ engine.effects = <<2, 2>>
        /\ EffectsRun(log[c]) = <<2, 2>>
        /\ buf[c] # inp[c]

\* C25: a process call on an empty buffer returns EmptyBuffer in its first
\* step, and that step leaves the engine, every effect's state and every
\* lock as they were; no other process call fails.
EmptyCallReturns(c) ==
    (pc[c] = "idle" /\ pc'[c] # "idle" /\ inp'[c] = <<>>) =>
        /\ pc'[c] = "done"
        /\ res'[c] = Err("EmptyBuffer")
        /\ log'[c] = log[c]
        /\ engine' = engine
        /\ fx' = fx
        /\ holder' = holder
OnlyEmptyCallsFail ==
    \A c \in Callers :
        ~res[c].ok => (pc[c] = "done" /\ inp[c] = <<>> /\ log[c] = <<>>
                         /\ res[c] = Err("EmptyBuffer"))
C25_FailedCallHasNoSideEffect ==
    /\ []OnlyEmptyCallsFail
    /\ [][\A c \in Callers : EmptyCallReturns(c)]_vars
C25_Witness ==
    \E c \in Callers :
        /\ pc[c] = "done"
        /\ res[c] = Err("EmptyBuffer")
        /\ engine.effects # <<>>
        /\ fx # EffectPool
        /\ \A e \in EffectIds : holder[e] = 0

\* C26: a caller of process holds at most one effect lock at any moment,
\* and only while it runs that effect; every process call that has begun
\* returns, whatever the chain and however the callers' steps interleave.
LocksHeld(c) == {e \in EffectIds : holder[e] = c}
OneLockAtMost ==
    \A c \in Callers :
        /\ Cardinality(LocksHeld(c)) <= 1
        /\ LocksHeld(c) # {} =>
              (pc[c] = "locked" /\ LocksHeld(c) = {engine.effects[idx[c]]})
C27_LimiterMonotone ==
    unit.op = "apply_soft_limiter" =>
        \A i, j \in 1..Len(unit.arg) :
            FLe(FAbs(unit.arg[i]), FAbs(unit.arg[j])) =>
                FLe(FAbs(unit.result.val[i]), FAbs(unit.result.val[j]))

\* The gain compress_rms holds after its first n samples.
GainAfter(n) ==
    CompressRun(SubSeq(unit.arg[1], 1, n), unit.arg[2][1], unit.arg[2][2],
                unit.arg[2][3], unit.arg[2][4], unit.arg[3]).gain

\* A call of compress_rms on finite samples with ratio >= 1 and positive
\* attack and release times.
CompressesFinite ==
    /\ unit.op = "compress_rms"
    /\ \A n \in 1..Len(unit.arg[1]) : IsFinite(unit.arg[1][n])
    /\ FGe(unit.arg[2][2], One)
    /\ FGt(unit.arg[2][3], Zero) /\ FGt(unit.arg[2][4], Zero)

\* The gain stays within [0, 1] and no sample comes out larger than it
\* went in.
NeverAmplified ==
    \A n \in 1..Len(unit.arg[1]) :
        /\ FGe(GainAfter(n), Zero) /\ FLe(GainAfter(n), One)
        /\ FLe(FAbs(unit.result.val[n]), FAbs(unit.arg[1][n]))

CoeffsAreNumbers ==
    /\ ~IsNaN(SmoothingCoeff(unit.arg[2][3], unit.arg[3]))
    /\ ~IsNaN(SmoothingCoeff(unit.arg[2][4], unit.arg[3]))

NonDegenerate ==
    /\ unit.op = "reduce_noise_wiener"
    /\ unit.arg[1] # <<>> /\ unit.arg[2] # <<>>
    /\ unit.arg[3] > 0 /\ unit.arg[4] > 0

\* Index k, counted from 0, lies inside a window the loop transforms.
InsideWindow(k) ==
    \E start \in WindowStarts(Len(unit.arg[1]), unit.arg[4]) :
        start <= k /\ k < start + NextPowerOfTwo(unit.arg[3])

\* C29: in every non-degenerate call of reduce_noise_wiener every output
\* index lies inside at least one analysis window.
C29_EveryIndexInsideAWindow ==
    NonDegenerate => \A k \in 0..(Len(unit.arg[1]) - 1) : InsideWindow(k)

\* The edges the filter of band i of the instance is designed from.
DesignEdges(i) ==
    BandEdges(IF i = 1 THEN Zero ELSE mb.bands[i - 1].high_freq,
              mb.bands[i].high_freq, mb.sample_rate)

\* C30: in every MultibandCompressor that new has returned, the clamped
\* edges each band's filter is designed from satisfy low < high.
C30_DesignEdgesOrdered ==
    mb # NoMB =>
        \A i \in 1..Len(mb.bands) : FLt(DesignEdges(i).low, DesignEdges(i).high)

=============================================================================
